---------------------------- MODULE Spec2Model ----------------------------
(***************************************************************************)
(* A model of the trade-flow / CBAM application:                           *)
(*   - the DocumentUpload page (src/unnamed/part_000): the classifier      *)
(*     detectCBAMRelevance, the upload list, processAllFiles, processFile; *)
(*   - the Settings page (src/src/pages/Settings.tsx): deleteAllData;      *)
(*   - the CBAM analysis page (src/unnamed/part_002): calculateRiskLevel,  *)
(*     calculateComplianceScore, loadCBAMData;                             *)
(*   - the trade flow page (src/unnamed/part_001): loadTradeFlowData;      *)
(*   - the hosted store (blink.db), a keyed store of tradeDocuments and    *)
(*     tradeRecords shared by the pages (what companyProfiles holds is     *)
(*     not tracked: its list call may answer with no profile or with one). *)
(* One DocumentUpload instance and one Settings instance of the same user  *)
(* are live (two tabs on the same store).  JavaScript runs each handler    *)
(* to its next await without interruption, so an action is the code from   *)
(* one await to the next; a store call is applied and answered in one      *)
(* step, and a call that fails leaves the store as it was.                 *)
(***************************************************************************)
EXTENDS Integers, Sequences, FiniteSets, TLC

(***************************************************************************)
(* Bounds of the model.                                                    *)
(***************************************************************************)
\* files dropped on the upload zone over a run
MaxFiles == 2
\* rows of the first sheet of a file
MaxRows == 2
\* words of a product description fed to the classifier
MaxWords == 2

(***************************************************************************)
(* Text.  A string is a sequence of one-character strings, so that         *)
(* toLowerCase and includes are computed, not assumed.  A letter outside   *)
(* ASCII is one element written by its name ("c_cedilla", "U_diaeresis").  *)
(***************************************************************************)
UpperToLower ==
  [A |-> "a", B |-> "b", C |-> "c", D |-> "d", E |-> "e", F |-> "f",
   G |-> "g", H |-> "h", I |-> "i", J |-> "j", K |-> "k", L |-> "l",
   M |-> "m", N |-> "n", O |-> "o", P |-> "p", Q |-> "q", R |-> "r",
   S |-> "s", T |-> "t", U |-> "u", V |-> "v", W |-> "w", X |-> "x",
   Y |-> "y", Z |-> "z", U_diaeresis |-> "u_diaeresis"]

\* String.prototype.toLowerCase
toLowerCase(s) ==
  [i \in 1..Len(s) |-> IF s[i] \in DOMAIN UpperToLower THEN UpperToLower[s[i]] ELSE s[i]]

\* String.prototype.includes: keyword occurs in s as a contiguous substring
includes(s, keyword) ==
  \E i \in 0..(Len(s) - Len(keyword)) : SubSeq(s, i + 1, i + Len(keyword)) = keyword

(***************************************************************************)
(* detectCBAMRelevance.  cbamaCategories is the object literal of the      *)
(* source; Object.entries walks its keys in the order they are written.    *)
(***************************************************************************)
cbamaCategories ==
  << [category |-> "cement",
      keywords |-> << <<"2","5","2","3">>, <<"2","5","0","7">>,
                      <<"c","e","m","e","n","t">>,
                      <<"c","o","n","c","r","e","t","e">> >>],
     [category |-> "steel",
      keywords |-> << <<"7","2">>, <<"7","3","0","1">>, <<"7","3","0","2">>,
                      <<"7","3","0","3">>, <<"7","3","0","4">>,
                      <<"7","3","0","5">>, <<"7","3","0","6">>,
                      <<"s","t","e","e","l">>, <<"i","r","o","n">> >>],
     [category |-> "aluminum",
      keywords |-> << <<"7","6">>, <<"7","6","0","1">>, <<"7","6","0","2">>,
                      <<"7","6","0","3">>, <<"7","6","0","4">>,
                      <<"7","6","0","5">>,
                      <<"a","l","u","m","i","n","u","m">>,
                      <<"a","l","u","m","i","n","i","u","m">> >>],
     [category |-> "fertilizers",
      keywords |-> << <<"3","1">>, <<"3","1","0","2">>, <<"3","1","0","3">>,
                      <<"3","1","0","4">>, <<"3","1","0","5">>,
                      <<"f","e","r","t","i","l","i","z","e","r">>,
                      <<"u","r","e","a">>, <<"a","m","m","o","n","i","a">> >>],
     [category |-> "electricity",
      keywords |-> << <<"2","7","1","6">>,
                      <<"e","l","e","c","t","r","i","c","i","t","y">>,
                      <<"p","o","w","e","r">>, <<"e","n","e","r","g","y">> >>] >>

\* the two nested for-loops: categories from index c, keywords from index k
RECURSIVE detectLoop(_, _, _, _, _)
detectLoop(entries, c, k, code, desc) ==
  IF c > Len(entries) THEN [relevant |-> FALSE]
  ELSE IF k > Len(entries[c].keywords) THEN detectLoop(entries, c + 1, 1, code, desc)
  ELSE IF includes(code, entries[c].keywords[k]) \/ includes(desc, entries[c].keywords[k])
       THEN [relevant |-> TRUE, category |-> entries[c].category]
       ELSE detectLoop(entries, c, k + 1, code, desc)

\* the category names of the classifier's table
categories == { cbamaCategories[i].category : i \in 1..Len(cbamaCategories) }

\* a classifier that walks the table from its last entry to its first
detectCBAMRelevance_reversed(productCode, description) ==
  detectLoop([i \in 1..Len(cbamaCategories) |->
                 cbamaCategories[Len(cbamaCategories) + 1 - i]],
             1, 1, toLowerCase(productCode), toLowerCase(description))

detectCBAMRelevance(productCode, description) ==
  detectLoop(cbamaCategories, 1, 1, toLowerCase(productCode), toLowerCase(description))


(***************************************************************************)
(* State.                                                                  *)
(***************************************************************************)
VARIABLES
  uploadedFiles,      \* DocumentUpload: useState<UploadedFile[]>
  isProcessing,       \* DocumentUpload: useState(false)
  batch,              \* the processAllFiles run: its pendingFiles and loop index
  pf,                 \* the processFile run: the await it is suspended at, its locals
  calls,              \* the store calls the current processFile run has had answered
  runs,               \* per file id, how many times processFile was started on it
  tradeDocuments,     \* store: blink.db.tradeDocuments
  tradeRecords,       \* store: blink.db.tradeRecords
  nextId,             \* the ids handed out so far (Date.now() + Math.random())
  isDeleting,         \* Settings: useState(false)
  showDeleteConfirm,  \* Settings: useState(false)
  del,                \* the deleteAllData run: the await it is suspended at, its locals
  cls,                \* classifier on its own: an input pair and the result computed
  nrm,                \* row mapping on its own: a row and the result computed
  scr,                \* risk level and score on their own: inputs and results
  cbam,               \* CBAMAnalysis: the loadCBAMData run, cbamaRecords, stats
  flow,               \* TradeFlowVisualization: the loadTradeFlowData run, tradeData
  dash,               \* Dashboard: the loadDashboardData run, documents, stats
  exp,                \* Settings: the exportData run and the summary downloaded
  rnk,                \* the rankings on their own: rollups and the top lists
  rts                 \* the route rollup on its own: tradeData and countryPairs

vars == << uploadedFiles, isProcessing, batch, pf, calls, runs, tradeDocuments,
           tradeRecords, nextId, isDeleting, showDeleteConfirm, del,
           cls, nrm, scr, cbam, flow, dash, exp, rnk, rts >>

uploadVars == << uploadedFiles, isProcessing, batch, pf, calls, runs >>
storeVars == << tradeDocuments, tradeRecords >>
settingsVars == << isDeleting, showDeleteConfirm, del >>
\* the parts that only read: the functions on their own and the analysis pages
readerVars == << cls, nrm, scr, cbam, flow, dash, exp, rnk, rts >>

(***************************************************************************)
(* JavaScript values of a spreadsheet row.  XLSX.utils.sheet_to_json gives *)
(* one object per row, keyed by the header text of each column that has a  *)
(* cell in the row; a text cell is a string and a numeric cell a number.   *)
(* Numbers are integers here; NaN is the number whose nan flag is set.     *)
(***************************************************************************)
undefined == [type |-> "undefined"]
Str(s) == [type |-> "string", v |-> s]
Num(n) == [type |-> "number", nan |-> FALSE, v |-> n]
NaN == [type |-> "number", nan |-> TRUE, v |-> 0]

\* the object spread { ...f, ...g }
Spread(f, g) ==
  [k \in (DOMAIN f) \cup (DOMAIN g) |-> IF k \in DOMAIN g THEN g[k] ELSE f[k]]

\* a row that has no cell under the columns of a field
noCell == <<>>

\* row[key]
get(row, key) == IF key \in DOMAIN row THEN row[key] ELSE undefined

\* ToBoolean: undefined, '', 0 and NaN are falsy
truthy(x) ==
  CASE x.type = "undefined" -> FALSE
    [] x.type = "string" -> x.v # <<>>
    [] x.type = "number" -> ~x.nan /\ x.v # 0

\* a || b || ... || z over the operands from index i on: the first truthy
\* operand, or the last operand
RECURSIVE orChain(_, _)
orChain(operands, i) ==
  IF i = Len(operands) \/ truthy(operands[i]) THEN operands[i]
  ELSE orChain(operands, i + 1)

digitValue ==
  [c \in {"0","1","2","3","4","5","6","7","8","9"} |->
     CASE c = "0" -> 0 [] c = "1" -> 1 [] c = "2" -> 2 [] c = "3" -> 3
       [] c = "4" -> 4 [] c = "5" -> 5 [] c = "6" -> 6 [] c = "7" -> 7
       [] c = "8" -> 8 [] c = "9" -> 9]

\* the decimal digits of s from index i on, up to the first other character
RECURSIVE digitsFrom(_, _, _, _)
digitsFrom(s, i, n, seen) ==
  IF i <= Len(s) /\ s[i] \in DOMAIN digitValue
  THEN digitsFrom(s, i + 1, 10 * n + digitValue[s[i]], TRUE)
  ELSE [n |-> n, seen |-> seen]

\* the index of the first character of s, from i on, that is not a blank
RECURSIVE skipBlanks(_, _)
skipBlanks(s, i) == IF i <= Len(s) /\ s[i] = " " THEN skipBlanks(s, i + 1) ELSE i

\* parseFloat(x): x is converted to a string and its longest numeric prefix
\* is read (leading blanks skipped, an optional sign, digits); NaN when
\* there is none.  Fractions and exponents are outside the texts drawn.
parseFloat(x) ==
  CASE x.type = "number" -> x
    [] x.type = "undefined" -> NaN
    [] x.type = "string" ->
         LET start == skipBlanks(x.v, 1)
             signed == start <= Len(x.v) /\ x.v[start] \in {"-", "+"}
             d == digitsFrom(x.v, IF signed THEN start + 1 ELSE start, 0, FALSE)
         IN  IF ~d.seen THEN NaN
             ELSE IF signed /\ x.v[start] = "-" THEN Num(0 - d.n) ELSE Num(d.n)

(***************************************************************************)
(* processExcelFile: the column names each field is looked up under, in    *)
(* the order of the || chain of its line.                                  *)
(***************************************************************************)
productCodeColumns ==
  << <<"P","r","o","d","u","c","t"," ","C","o","d","e">>,
     <<"H","S"," ","C","o","d","e">>,
     <<"C","o","d","e">>,
     <<"K","o","d">> >>

productDescriptionColumns ==
  << <<"P","r","o","d","u","c","t"," ","D","e","s","c","r","i","p","t","i","o","n">>,
     <<"D","e","s","c","r","i","p","t","i","o","n">>,
     <<"A","c_cedilla","dotless_i","k","l","a","m","a">>,
     <<"U_diaeresis","r","u_diaeresis","n">> >>

originCountryColumns ==
  << <<"O","r","i","g","i","n"," ","C","o","u","n","t","r","y">>,
     <<"C","o","u","n","t","r","y">>,
     <<"U_diaeresis","l","k","e">>,
     <<"M","e","n","s_cedilla","e">> >>

quantityColumns ==
  << <<"Q","u","a","n","t","i","t","y">>,
     <<"M","i","k","t","a","r">>,
     <<"A","m","o","u","n","t">> >>

unitColumns ==
  << <<"U","n","i","t">>,
     <<"B","i","r","i","m">> >>

valueColumns ==
  << <<"V","a","l","u","e">>,
     <<"D","e","g_breve","e","r">>,
     <<"A","m","o","u","n","t">> >>

currencyColumns ==
  << <<"C","u","r","r","e","n","c","y">>,
     <<"P","a","r","a"," ","B","i","r","i","m","i">> >>

(***************************************************************************)
(* Inputs: the files a user can drop.  A file either cannot be decoded or  *)
(* holds a first sheet of up to MaxRows rows; a row is one of RowInputs.   *)
(***************************************************************************)
RowInputs ==
  { (productCodeColumns[3] :> Str(<<"7","3","0","1">>)) @@
    (originCountryColumns[2] :> Str(<<"C","h","i","n","a">>)),
    (productCodeColumns[3] :> Str(<<"4","4","0","3">>)) @@
    (valueColumns[1] :> Num(2000)) }

RECURSIVE SeqsUpTo(_, _)
SeqsUpTo(S, n) ==
  IF n = 0 THEN { <<>> }
  ELSE LET shorter == SeqsUpTo(S, n - 1)
       IN  shorter \cup { Append(q, x) : q \in shorter, x \in S }

FileInputs ==
  { [ok |-> FALSE, rows |-> <<>>] } \cup
  { [ok |-> TRUE, rows |-> r] : r \in SeqsUpTo(RowInputs, MaxRows) }

\* what blink.auth.me() can throw: an Error with a message, or a non-Error value
AuthThrown == { [isError |-> TRUE, message |-> "Not authenticated"], [isError |-> FALSE] }

\* what a store call throws when it fails
StoreThrown == { [isError |-> TRUE, message |-> "Request failed"] }

(***************************************************************************)
(* processExcelFile: the row mapping of the normalizer.  A field is the    *)
(* || chain over the row's cells under the field's column names, ending in *)
(* the default.  detectCBAMRelevance calls toLowerCase on both arguments,  *)
(* which throws a TypeError on a value that is not a string; the throw     *)
(* leaves jsonData.map and processExcelFile rejects with it.               *)
(***************************************************************************)
\* row[c1] || row[c2] || ... || default
field(row, columns, default) ==
  orChain([i \in 1..(Len(columns) + 1) |->
             IF i <= Len(columns) THEN get(row, columns[i]) ELSE default], 1)

TypeError == [isError |-> TRUE, message |-> "toLowerCase is not a function"]

toTradeRecord(row) ==
  LET productCode == field(row, productCodeColumns, Str(<<>>))
      productDescription == field(row, productDescriptionColumns, Str(<<>>))
      originCountry == field(row, originCountryColumns, Str(<<>>))
      quantity == parseFloat(field(row, quantityColumns, Num(0)))
      unit == field(row, unitColumns, Str(<<"K","G">>))
      value == parseFloat(field(row, valueColumns, Num(0)))
      currency == field(row, currencyColumns, Str(<<"U","S","D">>))
      fields == [productCode |-> productCode,
                 productDescription |-> productDescription,
                 originCountry |-> originCountry, quantity |-> quantity,
                 unit |-> unit, value |-> value, currency |-> currency]
  IN  IF productCode.type # "string" \/ productDescription.type # "string"
      THEN [threw |-> TypeError]
      ELSE LET cbamaCheck == detectCBAMRelevance(productCode.v, productDescription.v)
           IN  IF cbamaCheck.relevant
               THEN Spread(fields, [isCbamRelevant |-> TRUE,
                                    cbamaCategory |-> cbamaCheck.category])
               ELSE Spread(fields, [isCbamRelevant |-> FALSE])

\* what the promise of processExcelFile settles with: the error of
\* XLSX.read on a file that is no spreadsheet, the error the row mapping
\* threw first, or the records
processExcelFile(file) ==
  LET mapped == [i \in 1..Len(file.rows) |-> toTradeRecord(file.rows[i])]
      thrown == { i \in 1..Len(mapped) : "threw" \in DOMAIN mapped[i] }
  IN  IF ~file.ok
      THEN [rejected |-> [isError |-> TRUE, message |-> "File is not a spreadsheet"]]
      ELSE IF thrown # {}
      THEN [rejected |-> mapped[CHOOSE i \in thrown : \A j \in thrown : i <= j].threw]
      ELSE [resolved |-> mapped]

\* `rec_${Date.now()}_${Math.random()...}`: an id no other record has, later
\* records getting larger ids
recordId(documentId, i) == documentId * (MaxRows + 2) + i

\* records.filter(r => r.isCbamRelevant).length
cbamaCount(records) == Cardinality({ i \in 1..Len(records) : records[i].isCbamRelevant })

\* a row writer that flags every record as CBAM-relevant
tradeRecordRow_flagAll(documentId, i, record) ==
  [id |-> recordId(documentId, i), documentId |-> documentId,
   productCode |-> record.productCode,
   productDescription |-> record.productDescription,
   originCountry |-> record.originCountry,
   quantity |-> record.quantity, unit |-> record.unit,
   value |-> record.value, currency |-> record.currency,
   isCbamRelevant |-> "1",
   cbamaCategory |-> IF "cbamaCategory" \in DOMAIN record
                     THEN record.cbamaCategory ELSE "null"]

\* the row blink.db.tradeRecords.create is called with for records[i]
tradeRecordRow(documentId, i, record) ==
  [id |-> recordId(documentId, i), documentId |-> documentId,
   productCode |-> record.productCode,
   productDescription |-> record.productDescription,
   originCountry |-> record.originCountry,
   quantity |-> record.quantity, unit |-> record.unit,
   value |-> record.value, currency |-> record.currency,
   isCbamRelevant |-> IF record.isCbamRelevant THEN "1" ELSE "0",
   cbamaCategory |-> IF "cbamaCategory" \in DOMAIN record
                     THEN record.cbamaCategory ELSE "null"]


(***************************************************************************)
(* DocumentUpload: the upload list.                                        *)
(***************************************************************************)
\* prev.map(f => f.id === id ? { ...f, ...g } : f)
mapFiles(files, id, g) ==
  [i \in 1..Len(files) |-> IF files[i].id = id THEN Spread(files[i], g) ELSE files[i]]

\* error instanceof Error ? error.message : 'Processing failed'
errorMessage(e) == IF e.isError THEN e.message ELSE "Processing failed"

\* a filter that lets every listed file into the batch
isPending_any(f) == f.status \in {"pending", "processing", "completed", "error"}

\* uploadedFiles.filter(f => f.status === 'pending')
isPending(f) == f.status = "pending"

NoBatch == [pendingFiles |-> <<>>, idx |-> 0]
NoRun == [pc |-> "none"]

\* a store call of the processFile run and how it was answered
logCall(op, ok) == Append(calls, [op |-> op, ok |-> ok])

(***************************************************************************)
(* processAllFiles, the loop "for (const file of pendingFiles) await       *)
(* processFile(file)" from index k on, with the list and the call log as   *)
(* the step before left them: processFile starts on pendingFiles[k] and    *)
(* runs to its first await (the file read), or the loop is over and        *)
(* isProcessing is reset.  calls keeps the log of the last run until the   *)
(* next run starts.                                                        *)
(***************************************************************************)
forLoop(files, pendingFiles, k, log) ==
  IF k > Len(pendingFiles)
  THEN /\ uploadedFiles' = files
       /\ isProcessing' = FALSE
       /\ batch' = NoBatch
       /\ pf' = NoRun
       /\ calls' = log
       /\ UNCHANGED runs
  ELSE /\ uploadedFiles' = mapFiles(files, pendingFiles[k].id,
                                    [status |-> "processing", progress |-> 10])
       /\ isProcessing' = TRUE
       /\ batch' = [pendingFiles |-> pendingFiles, idx |-> k]
       /\ pf' = [pc |-> "read", fileData |-> pendingFiles[k]]
       /\ calls' = <<>>
       /\ runs' = [runs EXCEPT ![pendingFiles[k].id] = @ + 1]

\* a catch block that marks every listed file, not only the one that failed
catch_everyFile(e, log) ==
  forLoop([i \in 1..Len(uploadedFiles) |->
             Spread(uploadedFiles[i], [status |-> "error", error |-> errorMessage(e)])],
          batch.pendingFiles, batch.idx + 1, log)

\* a catch block that marks the file and throws the error on: the loop of
\* processAllFiles is left and setIsProcessing(false) is not reached
catch_rethrow(e, log) ==
  /\ uploadedFiles' = mapFiles(uploadedFiles, pf.fileData.id,
                               [status |-> "error", error |-> errorMessage(e)])
  /\ batch' = NoBatch
  /\ pf' = NoRun
  /\ calls' = log
  /\ UNCHANGED << isProcessing, runs >>

\* the catch block of processFile, then the loop goes on
catch(e, log) ==
  forLoop(mapFiles(uploadedFiles, pf.fileData.id,
                   [status |-> "error", error |-> errorMessage(e)]),
          batch.pendingFiles, batch.idx + 1, log)

\* onDrop: one accepted file joins the list as pending
onDrop ==
  /\ nextId.file <= MaxFiles
  /\ \E content \in FileInputs :
       uploadedFiles' = Append(uploadedFiles,
          [file |-> [name |-> nextId.file, ok |-> content.ok, rows |-> content.rows],
           id |-> nextId.file, status |-> "pending", progress |-> 0])
  /\ nextId' = [nextId EXCEPT !.file = @ + 1]
  /\ runs' = (nextId.file :> 0) @@ runs
  /\ UNCHANGED << isProcessing, batch, pf, calls, storeVars, settingsVars, readerVars >>

\* removeFile, behind a button that is disabled while the file is processing
removeFile ==
  /\ \E i \in 1..Len(uploadedFiles) :
       /\ uploadedFiles[i].status # "processing"
       /\ uploadedFiles' = SelectSeq(uploadedFiles,
                                     LAMBDA f : f.id # uploadedFiles[i].id)
  /\ UNCHANGED << isProcessing, batch, pf, calls, runs, storeVars, nextId, settingsVars, readerVars >>

\* processAllFiles behind a button that is never disabled
processAllFiles_enabled ==
  /\ \E i \in 1..Len(uploadedFiles) : isPending(uploadedFiles[i])
  /\ forLoop(uploadedFiles, SelectSeq(uploadedFiles, isPending), 1, calls)
  /\ UNCHANGED << storeVars, nextId, settingsVars, readerVars >>

\* processAllFiles, behind a button shown while a file is pending and
\* disabled while isProcessing
processAllFiles ==
  /\ ~isProcessing
  /\ \E i \in 1..Len(uploadedFiles) : isPending(uploadedFiles[i])
  /\ forLoop(uploadedFiles, SelectSeq(uploadedFiles, isPending), 1, calls)
  /\ UNCHANGED << storeVars, nextId, settingsVars, readerVars >>

(***************************************************************************)
(* processFile, one action per await.                                      *)
(***************************************************************************)
\* await processExcelFile(file): the FileReader answers
processFile_read ==
  /\ pf.pc = "read"
  /\ LET settled == processExcelFile(pf.fileData.file)
     IN  \/ \* reader.onerror
            catch([isError |-> TRUE, message |-> "Failed to read file"], calls)
         \/ \* reader.onload, XLSX.read or the row mapping throws
            /\ "rejected" \in DOMAIN settled
            /\ catch(settled.rejected, calls)
         \/ \* reader.onload resolves with the records
            /\ "resolved" \in DOMAIN settled
            /\ uploadedFiles' = mapFiles(uploadedFiles, pf.fileData.id, [progress |-> 50])
            /\ pf' = [pc |-> "auth", fileData |-> pf.fileData,
                      records |-> settled.resolved]
            /\ UNCHANGED << isProcessing, batch, calls, runs >>
  /\ UNCHANGED << storeVars, nextId, settingsVars, readerVars >>

\* await blink.auth.me(), then the document id is drawn
processFile_auth ==
  /\ pf.pc = "auth"
  /\ \/ \E e \in AuthThrown : catch(e, calls) /\ UNCHANGED nextId
     \/ /\ pf' = [pc |-> "documentCreate", fileData |-> pf.fileData,
                  records |-> pf.records, documentId |-> nextId.doc]
        /\ nextId' = [nextId EXCEPT !.doc = @ + 1]
        /\ UNCHANGED << uploadedFiles, isProcessing, batch, calls, runs >>
  /\ UNCHANGED << storeVars, settingsVars, readerVars >>

\* await blink.db.tradeDocuments.create({...})
processFile_documentCreate ==
  /\ pf.pc = "documentCreate"
  /\ \/ /\ \E e \in StoreThrown :
             catch(e, logCall("tradeDocuments.create", FALSE))
        /\ UNCHANGED tradeDocuments
     \/ /\ tradeDocuments' = tradeDocuments \cup
             { [id |-> pf.documentId, filename |-> pf.fileData.file.name,
                status |-> "processing", totalRecords |-> Len(pf.records),
                cbamaRecords |-> cbamaCount(pf.records)] }
        /\ calls' = logCall("tradeDocuments.create", TRUE)
        /\ uploadedFiles' = mapFiles(uploadedFiles, pf.fileData.id, [progress |-> 75])
        /\ pf' = Spread(pf, IF Len(pf.records) > 0
                            THEN [pc |-> "recordCreate", i |-> 1]
                            ELSE [pc |-> "documentUpdate"])
        /\ UNCHANGED << isProcessing, batch, runs >>
  /\ UNCHANGED << tradeRecords, nextId, settingsVars, readerVars >>

\* a record loop that swallows a failed create and goes on with the next record
processFile_recordCreate_swallow ==
  /\ pf.pc = "recordCreate"
  /\ tradeRecords' \in
       { tradeRecords,
         tradeRecords \cup
           { tradeRecordRow(pf.documentId, pf.i, pf.records[pf.i]) } }
  /\ calls' = logCall("tradeRecords.create", tradeRecords' # tradeRecords)
  /\ pf' = IF pf.i < Len(pf.records)
           THEN [pf EXCEPT !.i = @ + 1]
           ELSE [pf EXCEPT !.pc = "documentUpdate"]
  /\ UNCHANGED << uploadedFiles, isProcessing, batch, runs >>
  /\ UNCHANGED << tradeDocuments, nextId, settingsVars, readerVars >>

\* await blink.db.tradeRecords.create({...}) for records[i]
processFile_recordCreate ==
  /\ pf.pc = "recordCreate"
  /\ \/ /\ \E e \in StoreThrown :
             catch(e, logCall("tradeRecords.create", FALSE))
        /\ UNCHANGED tradeRecords
     \/ /\ tradeRecords' = tradeRecords \cup
             { tradeRecordRow(pf.documentId, pf.i, pf.records[pf.i]) }
        /\ calls' = logCall("tradeRecords.create", TRUE)
        /\ pf' = IF pf.i < Len(pf.records)
                 THEN [pf EXCEPT !.i = @ + 1]
                 ELSE [pf EXCEPT !.pc = "documentUpdate"]
        /\ UNCHANGED << uploadedFiles, isProcessing, batch, runs >>
  /\ UNCHANGED << tradeDocuments, nextId, settingsVars, readerVars >>

\* await blink.db.tradeDocuments.update(documentId, { status: 'completed' });
\* an update of a row that is no longer there changes nothing
processFile_documentUpdate ==
  /\ pf.pc = "documentUpdate"
  /\ \/ /\ \E e \in StoreThrown :
             catch(e, logCall("tradeDocuments.update", FALSE))
        /\ UNCHANGED tradeDocuments
     \/ /\ tradeDocuments' =
             { IF d.id = pf.documentId THEN [d EXCEPT !.status = "completed"] ELSE d :
               d \in tradeDocuments }
        /\ forLoop(mapFiles(uploadedFiles, pf.fileData.id,
                            [status |-> "completed", progress |-> 100,
                             records |-> Len(pf.records),
                             cbamaRecords |-> cbamaCount(pf.records)]),
                   batch.pendingFiles, batch.idx + 1,
                   logCall("tradeDocuments.update", TRUE))
  /\ UNCHANGED << tradeRecords, nextId, settingsVars, readerVars >>


(***************************************************************************)
(* Settings: deleteAllData behind its confirmation dialog.                 *)
(***************************************************************************)
NoDelete == [pc |-> "none"]

\* the rows a list call returns, as their ids in the order they were created
RECURSIVE idsOf(_)
idsOf(rows) ==
  IF rows = {} THEN <<>>
  ELSE LET ids == { r.id : r \in rows }
           last == CHOOSE r \in rows : \A x \in ids : x <= r.id
       IN  Append(idsOf(rows \ {last}), last.id)

\* the three delete loops from loop `phase`, index i on: the next delete
\* call to await, or "done" when the three loops are over
RECURSIVE deleteLoops(_, _, _)
deleteLoops(d, phase, i) ==
  IF phase = "records"
  THEN IF i <= Len(d.records)
       THEN Spread(d, [pc |-> "recordDelete", i |-> i])
       ELSE deleteLoops(d, "documents", 1)
  ELSE IF phase = "documents"
  THEN IF i <= Len(d.documents)
       THEN Spread(d, [pc |-> "documentDelete", i |-> i])
       ELSE deleteLoops(d, "profiles", 1)
  ELSE IF i <= Len(d.profiles)
       THEN Spread(d, [pc |-> "profileDelete", i |-> i])
       ELSE [pc |-> "done"]

\* the run goes on to its next await, or ends: setShowDeleteConfirm(false),
\* then the finally block
proceed(d) ==
  IF d.pc = "done"
  THEN /\ showDeleteConfirm' = FALSE
       /\ isDeleting' = FALSE
       /\ del' = NoDelete
  ELSE /\ del' = d
       /\ UNCHANGED << showDeleteConfirm, isDeleting >>

\* an awaited call threw: the catch block logs, the finally block resets isDeleting
deleteFailed ==
  /\ isDeleting' = FALSE
  /\ del' = NoDelete
  /\ UNCHANGED showDeleteConfirm

\* the "Delete All" button: setShowDeleteConfirm(true)
openDeleteConfirm ==
  /\ ~isDeleting
  /\ ~showDeleteConfirm
  /\ showDeleteConfirm' = TRUE
  /\ UNCHANGED << uploadVars, storeVars, nextId, isDeleting, del, readerVars >>

\* the dialog's Cancel button: setShowDeleteConfirm(false)
cancelDeleteConfirm ==
  /\ showDeleteConfirm
  /\ ~isDeleting
  /\ showDeleteConfirm' = FALSE
  /\ UNCHANGED << uploadVars, storeVars, nextId, isDeleting, del, readerVars >>

\* the dialog's "Delete All Data" button: deleteAllData up to await blink.auth.me()
deleteAllData ==
  /\ showDeleteConfirm
  /\ ~isDeleting
  /\ isDeleting' = TRUE
  /\ del' = [pc |-> "auth"]
  /\ UNCHANGED << uploadVars, storeVars, nextId, showDeleteConfirm, readerVars >>

\* await blink.auth.me(), then the three list calls are issued together
deleteAllData_auth ==
  /\ del.pc = "auth"
  /\ \/ deleteFailed
     \/ del' = [pc |-> "list"] /\ UNCHANGED << showDeleteConfirm, isDeleting >>
  /\ UNCHANGED << uploadVars, storeVars, nextId, readerVars >>

\* await Promise.all([...list]): the documents list or the records list is
\* answered, in either order; the first to fail rejects the whole; with the
\* last answer (the profiles list has answered too) the loops start
deleteAllData_list ==
  /\ del.pc = "list"
  /\ \/ deleteFailed
     \/ \E which \in {"documents", "records"} \ DOMAIN del :
          LET rows == IF which = "documents" THEN tradeDocuments ELSE tradeRecords
              d == Spread(del, (which :> idsOf(rows)))
          IN  IF {"documents", "records"} \subseteq DOMAIN d
              THEN \E profiles \in { <<>>, <<1>> } :
                     proceed(deleteLoops(Spread(d, [profiles |-> profiles]), "records", 1))
              ELSE del' = d /\ UNCHANGED << showDeleteConfirm, isDeleting >>
  /\ UNCHANGED << uploadVars, storeVars, nextId, readerVars >>

\* a record loop that swallows a failed delete and goes on with the next record
deleteAllData_recordDelete_swallow ==
  /\ del.pc = "recordDelete"
  /\ tradeRecords' \in { tradeRecords,
                         { r \in tradeRecords : r.id # del.records[del.i] } }
  /\ proceed(deleteLoops(del, "records", del.i + 1))
  /\ UNCHANGED << uploadVars, tradeDocuments, nextId, readerVars >>

\* await blink.db.tradeRecords.delete(record.id)
deleteAllData_recordDelete ==
  /\ del.pc = "recordDelete"
  /\ \/ deleteFailed /\ UNCHANGED tradeRecords
     \/ /\ tradeRecords' = { r \in tradeRecords : r.id # del.records[del.i] }
        /\ proceed(deleteLoops(del, "records", del.i + 1))
  /\ UNCHANGED << uploadVars, tradeDocuments, nextId, readerVars >>

\* await blink.db.tradeDocuments.delete(doc.id)
deleteAllData_documentDelete ==
  /\ del.pc = "documentDelete"
  /\ \/ deleteFailed /\ UNCHANGED tradeDocuments
     \/ /\ tradeDocuments' = { d \in tradeDocuments : d.id # del.documents[del.i] }
        /\ proceed(deleteLoops(del, "documents", del.i + 1))
  /\ UNCHANGED << uploadVars, tradeRecords, nextId, readerVars >>

\* await blink.db.companyProfiles.delete(profile.id)
deleteAllData_profileDelete ==
  /\ del.pc = "profileDelete"
  /\ \/ deleteFailed
     \/ proceed(deleteLoops(del, "profiles", del.i + 1))
  /\ UNCHANGED << uploadVars, storeVars, nextId, readerVars >>

(***************************************************************************)
(* CBAMAnalysis (src/unnamed/part_002): calculateRiskLevel,                *)
(* calculateComplianceScore, loadCBAMData.  A score is kept in units of    *)
(* 1/Scale of a point, so that value / 100000 is exact on integer values;  *)
(* an average is kept as the pair of its numerator and denominator.        *)
(***************************************************************************)
Scale == 100000

highRiskCountries ==
  << <<"C","h","i","n","a">>, <<"I","n","d","i","a">>, <<"R","u","s","s","i","a">>,
     <<"T","u","r","k","e","y">>, <<"U","k","r","a","i","n","e">> >>

mediumRiskCountries ==
  << <<"B","r","a","z","i","l">>,
     <<"S","o","u","t","h"," ","A","f","r","i","c","a">>,
     <<"I","n","d","o","n","e","s","i","a">>,
     <<"T","h","a","i","l","a","n","d">> >>

highRiskCategories == << "steel", "cement", "aluminum" >>

\* Array.prototype.includes on an array of strings: x is one of its elements
countryIncluded(array, x) ==
  x.type = "string" /\ \E i \in 1..Len(array) : array[i] = x.v

categoryIncluded(array, x) == \E i \in 1..Len(array) : array[i] = x

\* a risk function whose first test is an "or"
calculateRiskLevel_or(country, category) ==
  IF countryIncluded(highRiskCountries, country)
     \/ categoryIncluded(highRiskCategories, category)
  THEN "high"
  ELSE IF countryIncluded(mediumRiskCountries, country) THEN "medium"
  ELSE "low"

calculateRiskLevel(country, category) ==
  IF countryIncluded(highRiskCountries, country)
     /\ categoryIncluded(highRiskCategories, category)
  THEN "high"
  ELSE IF countryIncluded(highRiskCountries, country)
          \/ categoryIncluded(highRiskCategories, category)
  THEN "medium"
  ELSE IF countryIncluded(mediumRiskCountries, country) THEN "medium"
  ELSE "low"

min(a, b) == IF a <= b THEN a ELSE b
max(a, b) == IF a >= b THEN a ELSE b

\* riskLevel === 'high' ? 40 : riskLevel === 'medium' ? 70 : 85
baseScore(riskLevel) ==
  IF riskLevel = "high" THEN 40 ELSE IF riskLevel = "medium" THEN 70 ELSE 85

\* a score whose value adjustment has no cap
calculateComplianceScore_uncapped(riskLevel, value) ==
  max(0, min(100 * Scale, baseScore(riskLevel) * Scale - value))

\* a score that is not clamped to [0,100]
calculateComplianceScore_unclamped(riskLevel, value) ==
  baseScore(riskLevel) * Scale - min(value, 15 * Scale)

\* the score in units of 1/Scale: value / 100000 points are value units
calculateComplianceScore(riskLevel, value) ==
  LET valueAdjustment == min(value, 15 * Scale)
  IN  max(0, min(100 * Scale, baseScore(riskLevel) * Scale - valueAdjustment))

(***************************************************************************)
(* loadCBAMData, run once by the effect of the mounted page, one action    *)
(* per await.  The store answers a list call with its matching rows in     *)
(* some order.                                                             *)
(***************************************************************************)
\* the arrays that hold each element of the set S once
Orderings(S) ==
  { q \in [1..Cardinality(S) -> S] : \A i, j \in DOMAIN q : q[i] = q[j] => i = j }

\* a list filter that lets every record through
whereCbamRelevant_all(r) == r.isCbamRelevant \in {"0", "1"}

\* where: { userId: user.id, isCbamRelevant: "1" }
whereCbamRelevant(r) == r.isCbamRelevant = "1"

\* the body of records.map
processRecord(record) ==
  LET category == IF record.cbamaCategory = "null" THEN "unknown"
                  ELSE record.cbamaCategory
      riskLevel == calculateRiskLevel(record.originCountry, category)
      complianceScore == calculateComplianceScore(riskLevel, record.value.v)
  IN  [id |-> record.id, productCode |-> record.productCode,
       productDescription |-> record.productDescription,
       originCountry |-> record.originCountry, quantity |-> record.quantity,
       value |-> record.value, cbamaCategory |-> category,
       riskLevel |-> riskLevel, complianceScore |-> complianceScore]

\* the sum of an array of numbers, from index i on
RECURSIVE sumFrom(_, _)
sumFrom(numbers, i) ==
  IF i > Len(numbers) THEN 0 ELSE numbers[i] + sumFrom(numbers, i + 1)

\* record.riskLevel === 'high' ? 3 : record.riskLevel === 'medium' ? 2 : 1
riskScore(r) == IF r.riskLevel = "high" THEN 3 ELSE IF r.riskLevel = "medium" THEN 2 ELSE 1

\* statistics whose average divides by the number of records unguarded
statsOf_unguarded(processedRecords) ==
  LET totalRecords == Len(processedRecords)
      high(r) == r.riskLevel = "high"
  IN  [totalRecords |-> totalRecords,
       highRiskRecords |-> Len(SelectSeq(processedRecords, high)),
       averageComplianceScore |->
         [num |-> sumFrom([i \in 1..totalRecords |->
                             processedRecords[i].complianceScore], 1),
          den |-> totalRecords],
       categoriesBreakdown |->
         [c \in { processedRecords[i].cbamaCategory : i \in 1..totalRecords } |->
            LET in(r) == r.cbamaCategory = c
            IN  Len(SelectSeq(processedRecords, in))],
       countryRisks |->
         [c \in { processedRecords[i].originCountry : i \in 1..totalRecords } |->
            sumFrom([i \in 1..totalRecords |->
                       IF processedRecords[i].originCountry = c
                       THEN riskScore(processedRecords[i]) ELSE 0], 1)]]

\* the statistics computed from processedRecords
statsOf(processedRecords) ==
  LET totalRecords == Len(processedRecords)
      high(r) == r.riskLevel = "high"
  IN  [totalRecords |-> totalRecords,
       highRiskRecords |-> Len(SelectSeq(processedRecords, high)),
       averageComplianceScore |->
         IF totalRecords > 0
         THEN [num |-> sumFrom([i \in 1..totalRecords |->
                                  processedRecords[i].complianceScore], 1),
               den |-> totalRecords]
         ELSE [num |-> 0, den |-> 1],
       categoriesBreakdown |->
         [c \in { processedRecords[i].cbamaCategory : i \in 1..totalRecords } |->
            LET in(r) == r.cbamaCategory = c
            IN  Len(SelectSeq(processedRecords, in))],
       countryRisks |->
         [c \in { processedRecords[i].originCountry : i \in 1..totalRecords } |->
            sumFrom([i \in 1..totalRecords |->
                       IF processedRecords[i].originCountry = c
                       THEN riskScore(processedRecords[i]) ELSE 0], 1)]]

\* stats.totalRecords > 0
\*   ? Math.round((stats.highRiskRecords / stats.totalRecords) * 100) : 0
highRiskPercent(stats) ==
  IF stats.totalRecords > 0
  THEN [type |-> "number", nan |-> FALSE,
        v |-> (200 * stats.highRiskRecords + stats.totalRecords)
                 \div (2 * stats.totalRecords)]
  ELSE [type |-> "number", nan |-> FALSE, v |-> 0]

\* stats.totalRecords > 0 ? Math.round((count / stats.totalRecords) * 100) : 0
categoryPercent(count, stats) ==
  IF stats.totalRecords > 0
  THEN [type |-> "number", nan |-> FALSE,
        v |-> (200 * count + stats.totalRecords) \div (2 * stats.totalRecords)]
  ELSE [type |-> "number", nan |-> FALSE, v |-> 0]

\* the state the page mounts with
initialStats ==
  [totalRecords |-> 0, highRiskRecords |-> 0,
   averageComplianceScore |-> [num |-> 0, den |-> 1],
   categoriesBreakdown |-> <<>>, countryRisks |-> <<>>]

\* the page mounts and its effect calls loadCBAMData, which awaits auth.me
loadCBAMData ==
  /\ cbam.pc = "none"
  /\ cbam' = [pc |-> "auth", loading |-> TRUE, cbamaRecords |-> <<>>,
              stats |-> initialStats]
  /\ UNCHANGED << uploadVars, storeVars, nextId, settingsVars, cls, nrm, scr, flow, dash, exp, rnk, rts >>

\* await blink.auth.me(): it throws (catch, finally) or the list is awaited
loadCBAMData_auth ==
  /\ cbam.pc = "auth"
  /\ \/ cbam' = [cbam EXCEPT !.pc = "failed", !.loading = FALSE]
     \/ cbam' = [cbam EXCEPT !.pc = "list"]
  /\ UNCHANGED << uploadVars, storeVars, nextId, settingsVars, cls, nrm, scr, flow, dash, exp, rnk, rts >>

\* a load that writes the risk level of every record it processed back to
\* the store
loadCBAMData_list_saving ==
  /\ cbam.pc = "list"
  /\ \E records \in Orderings({ r \in tradeRecords : whereCbamRelevant(r) }) :
       LET processedRecords == [i \in 1..Len(records) |-> processRecord(records[i])]
       IN  /\ cbam' = [pc |-> "done", loading |-> FALSE,
                        cbamaRecords |-> processedRecords,
                        stats |-> statsOf(processedRecords)]
           /\ tradeRecords' =
                { IF whereCbamRelevant(r)
                  THEN Spread(r, [riskLevel |-> processRecord(r).riskLevel])
                  ELSE r : r \in tradeRecords }
  /\ UNCHANGED << uploadVars, tradeDocuments, nextId, settingsVars, cls, nrm, scr,
                  flow, dash, exp, rnk, rts >>

\* await blink.db.tradeRecords.list({...}): it throws (catch, finally) or
\* the records are processed and the state is set
loadCBAMData_list ==
  /\ cbam.pc = "list"
  /\ \/ cbam' = [cbam EXCEPT !.pc = "failed", !.loading = FALSE]
     \/ \E records \in Orderings({ r \in tradeRecords : whereCbamRelevant(r) }) :
          LET processedRecords == [i \in 1..Len(records) |-> processRecord(records[i])]
          IN  cbam' = [pc |-> "done", loading |-> FALSE,
                       cbamaRecords |-> processedRecords,
                       stats |-> statsOf(processedRecords)]
  /\ UNCHANGED << uploadVars, storeVars, nextId, settingsVars, cls, nrm, scr, flow, dash, exp, rnk, rts >>

(***************************************************************************)
(* TradeFlowVisualization (src/unnamed/part_001): loadTradeFlowData, run   *)
(* once by the effect of the mounted page, one action per await.           *)
(* countryMap is the array of the Map's values in insertion order.         *)
(***************************************************************************)
Unknown == Str(<<"U","n","k","n","o","w","n">>)

\* record.originCountry || 'Unknown'
countryOf(record) ==
  IF truthy(record.originCountry) THEN record.originCountry ELSE Unknown

\* record.value || 0
valueOf(record) == IF truthy(record.value) THEN record.value.v ELSE 0

\* Number(text) on the texts the store holds for the flag
Number(text) ==
  IF text = "1" THEN Num(1) ELSE IF text = "0" THEN Num(0) ELSE NaN

\* a reader that takes every number for a set flag
isCbam_anyNumber(record) ==
  LET n == Number(record.isCbamRelevant) IN ~n.nan /\ n.v >= 0

\* Number(record.isCbamRelevant) > 0
isCbam(record) ==
  LET n == Number(record.isCbamRelevant) IN ~n.nan /\ n.v > 0

\* a forEach body that pushes every product description
addRecord_pushAll(countryMap, record) ==
  LET country == countryOf(record)
      known == \E k \in 1..Len(countryMap) : countryMap[k].country = country
      entries == IF known THEN countryMap
                 ELSE Append(countryMap,
                             [country |-> country, totalRecords |-> 0, totalValue |-> 0,
                              cbamaRecords |-> 0, topProducts |-> <<>>])
  IN  [k \in 1..Len(entries) |->
         IF entries[k].country # country THEN entries[k]
         ELSE [country |-> country,
               totalRecords |-> entries[k].totalRecords + 1,
               totalValue |-> entries[k].totalValue + valueOf(record),
               cbamaRecords |-> entries[k].cbamaRecords + (IF isCbam(record) THEN 1 ELSE 0),
               topProducts |-> Append(entries[k].topProducts,
                                      record.productDescription)]]

\* a forEach body that only creates the entry of a country it has not seen
\* and counts a record from the second of a country on
addRecord_skipFirst(countryMap, record) ==
  LET country == countryOf(record)
      known == \E k \in 1..Len(countryMap) : countryMap[k].country = country
  IN  IF ~known
      THEN Append(countryMap,
                  [country |-> country, totalRecords |-> 0, totalValue |-> 0,
                   cbamaRecords |-> 0, topProducts |-> <<>>])
      ELSE [k \in 1..Len(countryMap) |->
              IF countryMap[k].country # country THEN countryMap[k]
              ELSE [countryMap[k] EXCEPT
                      !.totalRecords = @ + 1,
                      !.totalValue = @ + valueOf(record),
                      !.cbamaRecords = @ + (IF isCbam(record) THEN 1 ELSE 0)]]

\* the body of records.forEach on one record
addRecord(countryMap, record) ==
  LET country == countryOf(record)
      known == \E k \in 1..Len(countryMap) : countryMap[k].country = country
      entries == IF known THEN countryMap
                 ELSE Append(countryMap,
                             [country |-> country, totalRecords |-> 0, totalValue |-> 0,
                              cbamaRecords |-> 0, topProducts |-> <<>>])
  IN  [k \in 1..Len(entries) |->
         IF entries[k].country # country THEN entries[k]
         ELSE [country |-> country,
               totalRecords |-> entries[k].totalRecords + 1,
               totalValue |-> entries[k].totalValue + valueOf(record),
               cbamaRecords |-> entries[k].cbamaRecords + (IF isCbam(record) THEN 1 ELSE 0),
               topProducts |->
                 IF /\ truthy(record.productDescription)
                    /\ \A j \in 1..Len(entries[k].topProducts) :
                          entries[k].topProducts[j] # record.productDescription
                 THEN Append(entries[k].topProducts, record.productDescription)
                 ELSE entries[k].topProducts]]

\* records.forEach from index i on
RECURSIVE forEachRecord(_, _, _)
forEachRecord(records, i, countryMap) ==
  IF i > Len(records) THEN countryMap
  ELSE forEachRecord(records, i + 1, addRecord(countryMap, records[i]))

\* the array with x put in before the elements whose totalValue is not greater
insertByValue_first(sorted, x) ==
  LET before == Cardinality({ k \in 1..Len(sorted) : sorted[k].totalValue > x.totalValue })
  IN  SubSeq(sorted, 1, before) \o << x >> \o SubSeq(sorted, before + 1, Len(sorted))

\* the array with x put in after the elements whose totalValue is not smaller
insertByValue(sorted, x) ==
  LET before == Cardinality({ k \in 1..Len(sorted) : sorted[k].totalValue >= x.totalValue })
  IN  SubSeq(sorted, 1, before) \o << x >> \o SubSeq(sorted, before + 1, Len(sorted))

\* .sort((a, b) => b.totalValue - a.totalValue), a stable sort, on the
\* elements from index i on
RECURSIVE sortByValue(_, _, _)
sortByValue(array, i, sorted) ==
  IF i > Len(array) THEN sorted
  ELSE sortByValue(array, i + 1, insertByValue(sorted, array[i]))

\* array.slice(0, n)
slice(array, n) == SubSeq(array, 1, min(n, Len(array)))

\* Array.from(countryMap.values())
\*   .sort((a, b) => b.totalValue - a.totalValue).slice(0, 10)
topCountriesOf(values) == slice(sortByValue(values, 1, <<>>), 10)

\* the value setTradeData is called with
tradeDataOf(records) ==
  LET countryMap == forEachRecord(records, 1, <<>>)
      topCountries == topCountriesOf(countryMap)
      routes == slice(topCountries, 5)
  IN  [totalCountries |-> Len(countryMap),
       totalValue |-> sumFrom([i \in 1..Len(records) |-> valueOf(records[i])], 1),
       topCountries |-> topCountries,
       tradeRoutes |-> [k \in 1..Len(routes) |->
                          [from |-> routes[k].country, to |-> "Your Company",
                           value |-> routes[k].totalValue,
                           volume |-> routes[k].totalRecords]]]

\* the state the page mounts with
initialTradeData ==
  [totalCountries |-> 0, totalValue |-> 0, topCountries |-> <<>>, tradeRoutes |-> <<>>]

\* the page mounts and its effect calls loadTradeFlowData, which awaits auth.me
loadTradeFlowData ==
  /\ flow.pc = "none"
  /\ flow' = [pc |-> "auth", loading |-> TRUE, records |-> <<>>,
              tradeData |-> initialTradeData]
  /\ UNCHANGED << uploadVars, storeVars, nextId, settingsVars, cls, nrm, scr, cbam, dash, exp, rnk, rts >>

\* await blink.auth.me(): it throws (catch, finally) or the list is awaited
loadTradeFlowData_auth ==
  /\ flow.pc = "auth"
  /\ \/ flow' = [flow EXCEPT !.pc = "failed", !.loading = FALSE]
     \/ flow' = [flow EXCEPT !.pc = "list"]
  /\ UNCHANGED << uploadVars, storeVars, nextId, settingsVars, cls, nrm, scr, cbam, dash, exp, rnk, rts >>

\* await blink.db.tradeRecords.list({...}): it throws (catch, finally) or
\* the rollup is computed and the state is set; records is kept as the run
\* saw it
loadTradeFlowData_list ==
  /\ flow.pc = "list"
  /\ \/ flow' = [flow EXCEPT !.pc = "failed", !.loading = FALSE]
     \/ \E records \in Orderings(tradeRecords) :
          flow' = [pc |-> "done", loading |-> FALSE, records |-> records,
                   tradeData |-> tradeDataOf(records)]
  /\ UNCHANGED << uploadVars, storeVars, nextId, settingsVars, cls, nrm, scr, cbam, dash, exp, rnk, rts >>

\* the number Infinity (sign 1) or -Infinity (sign -1)
Infinity(sign) == [type |-> "number", nan |-> FALSE, inf |-> sign]

\* Math.round((part / whole) * 100) on integers: 0 / 0 is NaN, x / 0 is an
\* infinity, and Math.round goes to the nearest integer, a half upwards
roundPercent(part, whole) ==
  IF whole = 0
  THEN IF part = 0 THEN NaN ELSE Infinity(IF part > 0 THEN 1 ELSE 0 - 1)
  ELSE LET n == IF whole > 0 THEN part ELSE 0 - part
           d == IF whole > 0 THEN whole ELSE 0 - whole
       IN  Num((200 * n + d) \div (2 * d))

\* Math.round((country.totalValue / tradeData.totalValue) * 100)
tradeVolumePercent(country, tradeData) ==
  roundPercent(country.totalValue, tradeData.totalValue)

\* the Trade Volume percents on the page: one for each country of
\* tradeData.topCountries.slice(0, 8), none while the skeleton is shown
tradeVolumePercents ==
  IF flow.pc \in {"done", "failed"}
  THEN LET shown == slice(flow.tradeData.topCountries, 8)
       IN  [k \in 1..Len(shown) |-> tradeVolumePercent(shown[k], flow.tradeData)]
  ELSE <<>>

(***************************************************************************)
(* Dashboard (src/pages/Dashboard.tsx): loadDashboardData, run once by the *)
(* effect of the mounted page, one action per await.                       *)
(***************************************************************************)
\* orderBy: { uploadedAt: 'desc' }, limit: 5: documents get their ids in the
\* order of their creation
recentDocuments(documents) ==
  slice(CHOOSE q \in Orderings(documents) :
          \A i, j \in DOMAIN q : i < j => q[i].id > q[j].id, 5)

\* the value setStats is called with
dashboardStatsOf(docsResult, recordsResult) ==
  LET processing(doc) == doc.status = "processing"
  IN  [totalDocuments |-> Len(docsResult),
       totalRecords |-> Len(recordsResult),
       cbamaRecords |-> Len(SelectSeq(recordsResult, isCbam)),
       uniqueCountries |->
         Cardinality({ recordsResult[i].originCountry : i \in 1..Len(recordsResult) }),
       processingDocuments |-> Len(SelectSeq(docsResult, processing))]

\* the state the page mounts with
initialDashboardStats ==
  [totalDocuments |-> 0, totalRecords |-> 0, cbamaRecords |-> 0,
   uniqueCountries |-> 0, processingDocuments |-> 0]

\* stats.totalRecords > 0
\*   ? Math.round((stats.cbamaRecords / stats.totalRecords) * 100) : 0
cbamPercent(stats) ==
  IF stats.totalRecords > 0
  THEN roundPercent(stats.cbamaRecords, stats.totalRecords)
  ELSE Num(0)

\* the page mounts and its effect calls loadDashboardData, which awaits
\* auth.me
loadDashboardData ==
  /\ dash.pc = "none"
  /\ dash' = [pc |-> "auth", loading |-> TRUE, docsResult |-> <<>>,
              documents |-> <<>>, stats |-> initialDashboardStats]
  /\ UNCHANGED << uploadVars, storeVars, nextId, settingsVars, cls, nrm, scr, cbam,
                  flow, exp, rnk, rts >>

\* await blink.auth.me(): it throws (catch, finally) or the documents are
\* awaited
loadDashboardData_auth ==
  /\ dash.pc = "auth"
  /\ \/ dash' = [dash EXCEPT !.pc = "failed", !.loading = FALSE]
     \/ dash' = [dash EXCEPT !.pc = "documents"]
  /\ UNCHANGED << uploadVars, storeVars, nextId, settingsVars, cls, nrm, scr, cbam,
                  flow, exp, rnk, rts >>

\* await blink.db.tradeDocuments.list({...}): it throws (catch, finally) or
\* the records are awaited
loadDashboardData_documents ==
  /\ dash.pc = "documents"
  /\ \/ dash' = [dash EXCEPT !.pc = "failed", !.loading = FALSE]
     \/ dash' = [dash EXCEPT !.pc = "records",
                             !.docsResult = recentDocuments(tradeDocuments)]
  /\ UNCHANGED << uploadVars, storeVars, nextId, settingsVars, cls, nrm, scr, cbam,
                  flow, exp, rnk, rts >>

\* await blink.db.tradeRecords.list({...}): it throws (catch, finally) or
\* the documents and the stats are set
loadDashboardData_records ==
  /\ dash.pc = "records"
  /\ \/ dash' = [dash EXCEPT !.pc = "failed", !.loading = FALSE]
     \/ \E recordsResult \in Orderings(tradeRecords) :
          dash' = [pc |-> "done", loading |-> FALSE, docsResult |-> dash.docsResult,
                   documents |-> dash.docsResult,
                   stats |-> dashboardStatsOf(dash.docsResult, recordsResult)]
  /\ UNCHANGED << uploadVars, storeVars, nextId, settingsVars, cls, nrm, scr, cbam,
                  flow, exp, rnk, rts >>

(***************************************************************************)
(* Settings (src/pages/Settings.tsx): exportData, behind a button that is  *)
(* disabled while isExporting, one action per await.  The three lists of   *)
(* Promise.all are awaited together; summary is the summary of the file    *)
(* downloaded last.                                                        *)
(***************************************************************************)
\* the summary of the exported object
summaryOf(documents, records) ==
  [totalDocuments |-> Len(documents),
   totalRecords |-> Len(records),
   cbamaRecords |-> Len(SelectSeq(records, isCbam))]

\* the button is clicked: setIsExporting(true), then auth.me is awaited
exportData ==
  /\ ~exp.isExporting
  /\ exp' = Spread(exp, [pc |-> "auth", isExporting |-> TRUE])
  /\ UNCHANGED << uploadVars, storeVars, nextId, settingsVars, cls, nrm, scr, cbam,
                  flow, dash, rnk, rts >>

\* await blink.auth.me(): it throws (catch, finally) or the lists are awaited
exportData_auth ==
  /\ exp.pc = "auth"
  /\ \/ exp' = Spread(exp, [pc |-> "failed", isExporting |-> FALSE])
     \/ exp' = Spread(exp, [pc |-> "list"])
  /\ UNCHANGED << uploadVars, storeVars, nextId, settingsVars, cls, nrm, scr, cbam,
                  flow, dash, rnk, rts >>

\* await Promise.all([...]): a list throws (catch, finally) or the file is
\* built and downloaded
exportData_list ==
  /\ exp.pc = "list"
  /\ \/ exp' = Spread(exp, [pc |-> "failed", isExporting |-> FALSE])
     \/ \E documents \in Orderings(tradeDocuments), records \in Orderings(tradeRecords) :
          exp' = Spread(exp, [pc |-> "done", isExporting |-> FALSE,
                              summary |-> summaryOf(documents, records)])
  /\ UNCHANGED << uploadVars, storeVars, nextId, settingsVars, cls, nrm, scr, cbam,
                  flow, dash, rnk, rts >>

(***************************************************************************)
(* TradeFlowVisualization, the route view (src/unnamed/part_001, lines 1   *)
(* to 195): countryPairs and topRoutes, computed from tradeData on every   *)
(* render.  countryPairs is the array of the object's values in the order  *)
(* in which their keys were inserted.                                      *)
(***************************************************************************)
\* `${x}` in a template literal, for a string or undefined
templateText(x) ==
  IF x.type = "undefined" THEN <<"u","n","d","e","f","i","n","e","d">> ELSE x.v

\* `${record.countryOrigin}-${record.countryDestination}`
routeKey(record) ==
  templateText(record.countryOrigin) \o <<"-">> \o templateText(record.countryDestination)

\* the body of tradeData.reduce on one record
addPair(acc, record) ==
  LET key == routeKey(record)
      known == \E k \in 1..Len(acc) : acc[k].key = key
      entries == IF known THEN acc
                 ELSE Append(acc, [key |-> key, origin |-> record.countryOrigin,
                                   destination |-> record.countryDestination,
                                   count |-> 0, totalValue |-> 0, cbamRelevant |-> 0])
  IN  [k \in 1..Len(entries) |->
         IF entries[k].key # key THEN entries[k]
         ELSE [entries[k] EXCEPT
                 !.count = @ + 1,
                 !.totalValue = @ + (IF truthy(record.valueUsd)
                                     THEN record.valueUsd.v ELSE 0),
                 !.cbamRelevant = @ + (IF isCbam(record) THEN 1 ELSE 0)]]

\* tradeData.reduce(..., {}) from index i on
RECURSIVE reducePairs(_, _, _)
reducePairs(tradeData, i, acc) ==
  IF i > Len(tradeData) THEN acc
  ELSE reducePairs(tradeData, i + 1, addPair(acc, tradeData[i]))

\* Object.values(countryPairs)
\*   .sort((a, b) => b.totalValue - a.totalValue).slice(0, 10)
topRoutesOf(values) == slice(sortByValue(values, 1, <<>>), 10)

\* the records the route view is given
RouteRecords ==
  { [countryOrigin |-> o, countryDestination |-> d, valueUsd |-> v,
     isCbamRelevant |-> c] :
      o \in { Str(<<"A">>), Str(<<"A","-","B">>) },
      d \in { Str(<<"C">>), Str(<<"B","-","C">>) },
      v \in { Num(1000), Num(2000) },
      c \in { "0", "1" } }

\* a render of the route view
reduceRoutes ==
  /\ "countryPairs" \notin DOMAIN rts
  /\ LET countryPairs == reducePairs(rts.tradeData, 1, <<>>)
     IN  rts' = Spread(rts, [countryPairs |-> countryPairs,
                             topRoutes |-> topRoutesOf(countryPairs)])
  /\ UNCHANGED << uploadVars, storeVars, nextId, settingsVars, cls, nrm, scr, cbam,
                  flow, dash, exp, rnk >>

(***************************************************************************)
(* The two rankings on their own: an array of rollups in the order of      *)
(* their insertion, then the top lists.                                    *)
(***************************************************************************)
MaxRanked == 11

RankValues == { 1000, 2000 }

\* the arrays of up to MaxRanked rollups; key is the place of insertion
RankInputs ==
  UNION { { [i \in 1..n |-> [key |-> i, totalValue |-> f[i]]] :
              f \in [1..n -> RankValues] } : n \in 0..MaxRanked }

rank ==
  /\ "topCountries" \notin DOMAIN rnk
  /\ rnk' = Spread(rnk, [topCountries |-> topCountriesOf(rnk.values),
                         topRoutes |-> topRoutesOf(rnk.values)])
  /\ UNCHANGED << uploadVars, storeVars, nextId, settingsVars, cls, nrm, scr, cbam,
                  flow, dash, exp, rts >>

\* the rows of the sheets whose upload the trade flow page reads
FlowRows ==
  { o @@ d @@ v :
      o \in { noCell, originCountryColumns[2] :> Str(<<"F","r","a","n","c","e">>),
              originCountryColumns[2] :> Unknown },
      d \in { noCell, productDescriptionColumns[2] :> Str(<<"S","t","e","e","l">>),
              productDescriptionColumns[2] :> Str(<<"W","o","o","d">>) },
      v \in { valueColumns[1] :> Num(0), valueColumns[1] :> Num(1000),
              valueColumns[1] :> Num(2000) } }

(***************************************************************************)
(* The risk level and the score on their own: a country, a category and a  *)
(* trade value, then the results.                                          *)
(***************************************************************************)
Countries ==
  { Str(highRiskCountries[i]) : i \in 1..Len(highRiskCountries) } \cup
  { Str(mediumRiskCountries[i]) : i \in 1..Len(mediumRiskCountries) } \cup
  { Str(<<"F","r","a","n","c","e">>), Str(<<>>), Str(<<"c","h","i","n","a">>) }

TradeValues ==
  { 0 - 2000000, 0 - 1, 0, 1, 100000, 1499999, 1500000, 1500001, 20000000 }

ScoreInputs ==
  { [country |-> c, category |-> g, value |-> Num(v)] :
      c \in Countries, g \in categories \cup {"unknown"}, v \in TradeValues }

score ==
  /\ "riskLevel" \notin DOMAIN scr
  /\ LET riskLevel == calculateRiskLevel(scr.country, scr.category)
     IN  scr' = Spread(scr, [riskLevel |-> riskLevel,
                             complianceScore |->
                               calculateComplianceScore(riskLevel, scr.value.v)])
  /\ UNCHANGED << uploadVars, storeVars, nextId, settingsVars, cls, nrm, cbam, flow, dash, exp, rnk, rts >>

(***************************************************************************)
(* The store the analysis pages read: what a completed upload of one file  *)
(* left, for every sheet of up to MaxRows rows of AnalysisRows.            *)
(***************************************************************************)
AnalysisRows ==
  { c @@ o @@ v :
      c \in { productCodeColumns[3] :> Str(<<"7","3","0","1">>),
              productCodeColumns[3] :> Str(<<"3","1","0","2">>),
              productCodeColumns[3] :> Str(<<"4","4","0","3">>) },
      o \in { noCell, originCountryColumns[2] :> Str(<<"C","h","i","n","a">>),
              originCountryColumns[2] :> Str(<<"B","r","a","z","i","l">>) },
      v \in { valueColumns[1] :> Num(0 - 2000000), valueColumns[1] :> Num(1000),
              valueColumns[1] :> Num(3000000) } }

\* the store after processFile ran to its end on a file of these rows
uploaded(rows) ==
  LET records == processExcelFile([ok |-> TRUE, rows |-> rows]).resolved
  IN  [tradeDocuments |->
         { [id |-> 1, filename |-> 1, status |-> "completed",
            totalRecords |-> Len(records), cbamaRecords |-> cbamaCount(records)] },
       tradeRecords |-> { tradeRecordRow(1, i, records[i]) : i \in 1..Len(records) }]

(***************************************************************************)
(* The classifier on its own: an input pair, then its result.              *)
(***************************************************************************)
Codes ==
  { <<>>, <<"7","3","0","1">>, <<"7","6","0","1">>, <<"2","5","2","3">>,
    <<"8","4","7","2">>, <<"7","6","3","1">>, <<"4","4","0","3">> }

Vocabulary ==
  { <<"S","t","e","e","l">>, <<"A","L","U","M","I","N","U","M">>,
    <<"C","e","m","e","n","t">>, <<"u","r","e","a">>, <<"P","o","w","e","r">>,
    <<"p","i","p","e">> }

\* descriptions of up to n words of the vocabulary, separated by blanks
RECURSIVE Descriptions(_)
Descriptions(n) ==
  IF n = 0 THEN { <<>> }
  ELSE LET shorter == Descriptions(n - 1)
       IN  shorter \cup { IF d = <<>> THEN w ELSE d \o <<" ">> \o w :
                          d \in shorter, w \in Vocabulary }

ClassifierInputs ==
  { [productCode |-> c, description |-> d] : c \in Codes, d \in Descriptions(MaxWords) }

classify ==
  /\ "result" \notin DOMAIN cls
  /\ cls' = Spread(cls, [result |-> detectCBAMRelevance(cls.productCode, cls.description)])
  /\ UNCHANGED << uploadVars, storeVars, nextId, settingsVars, nrm, scr, cbam, flow, dash, exp, rnk, rts >>

(***************************************************************************)
(* The row mapping on its own: a row of the first sheet, the record (or    *)
(* the throw) jsonData.map gives for it, and the row tradeRecords.create   *)
(* is called with for the record.  A row is put together from the cells a  *)
(* sheet can hold under each field's columns.                              *)
(***************************************************************************)
productCodeCells ==
  { noCell,
    productCodeColumns[1] :> Str(<<"7","3","0","1">>),
    productCodeColumns[2] :> Num(7301),
    (productCodeColumns[1] :> Str(<<>>)) @@ (productCodeColumns[2] :> Str(<<"7","6","0","1">>)),
    toLowerCase(productCodeColumns[1]) :> Str(<<"2","5","2","3">>),
    productCodeColumns[4] :> Str(<<"4","4","0","3">>) }

productDescriptionCells ==
  { noCell,
    productDescriptionColumns[2] :> Str(<<"U","r","e","a">>),
    productDescriptionColumns[1] :> Num(5) }

originCountryCells ==
  { noCell, originCountryColumns[2] :> Str(<<"C","h","i","n","a">>) }

quantityCells ==
  { noCell,
    (quantityColumns[1] :> Num(0)) @@ (quantityColumns[2] :> Num(5)),
    quantityColumns[1] :> Str(<<"1","2","k","g">>),
    quantityColumns[3] :> Num(7) }

unitCells ==
  { noCell, unitColumns[2] :> Str(<<"T","O","N">>) }

valueCells ==
  { noCell,
    valueColumns[1] :> Num(1000),
    valueColumns[1] :> Str(<<"a","b","c">>),
    valueColumns[1] :> Str(<<" ","-","5">>),
    toLowerCase(valueColumns[1]) :> Num(3) }

currencyCells ==
  { noCell, currencyColumns[1] :> Str(<<"E","U","R">>) }

NormalizerRows ==
  { c @@ d @@ o @@ q @@ u @@ v @@ y :
      c \in productCodeCells, d \in productDescriptionCells,
      o \in originCountryCells, q \in quantityCells, u \in unitCells,
      v \in valueCells, y \in currencyCells }

\* jsonData.map applied to the row
normalize ==
  /\ "result" \notin DOMAIN nrm
  /\ nrm' = Spread(nrm, [result |-> toTradeRecord(nrm.row)])
  /\ UNCHANGED << uploadVars, storeVars, nextId, settingsVars, cls, scr, cbam, flow, dash, exp, rnk, rts >>

\* blink.db.tradeRecords.create for the record of the row, as the first
\* record of document 1
persist ==
  /\ "result" \in DOMAIN nrm
  /\ "threw" \notin DOMAIN nrm.result
  /\ tradeRecords = {}
  /\ tradeRecords' = { tradeRecordRow(1, 1, nrm.result) }
  /\ UNCHANGED << uploadVars, tradeDocuments, nextId, settingsVars, readerVars >>

(***************************************************************************)
(* Specifications.                                                         *)
(***************************************************************************)
\* the upload page and the settings page as they mount
InitPages ==
  /\ uploadedFiles = <<>>
  /\ isProcessing = FALSE
  /\ batch = NoBatch
  /\ pf = NoRun
  /\ calls = <<>>
  /\ runs = <<>>
  /\ nextId = [file |-> 1, doc |-> 1]
  /\ isDeleting = FALSE
  /\ showDeleteConfirm = FALSE
  /\ del = NoDelete

InitProgram == InitPages /\ tradeDocuments = {} /\ tradeRecords = {}

\* the idle state of the parts that only read
NoInput == [productCode |-> <<>>, description |-> <<>>]
NoRow == [row |-> <<>>]
NoLoad == [pc |-> "none"]
NoExport == [pc |-> "none", isExporting |-> FALSE]
NoRanking == [values |-> <<>>]
NoRoutes == [tradeData |-> <<>>]
NoScore == [country |-> Str(<<>>), category |-> "unknown", value |-> Num(0)]

\* the parts that only read, idle
readersIdle(except) ==
  /\ "cls" \in except \/ cls = NoInput
  /\ "nrm" \in except \/ nrm = NoRow
  /\ "scr" \in except \/ scr = NoScore
  /\ "cbam" \in except \/ cbam = NoLoad
  /\ "flow" \in except \/ flow = NoLoad
  /\ "dash" \in except \/ dash = NoLoad
  /\ "exp" \in except \/ exp = NoExport
  /\ "rnk" \in except \/ rnk = NoRanking
  /\ "rts" \in except \/ rts = NoRoutes

Init == InitProgram /\ readersIdle({})

Next ==
  \/ onDrop
  \/ removeFile
  \/ processAllFiles
  \/ processFile_read
  \/ processFile_auth
  \/ processFile_documentCreate
  \/ processFile_recordCreate
  \/ processFile_documentUpdate
  \/ openDeleteConfirm
  \/ cancelDeleteConfirm
  \/ deleteAllData
  \/ deleteAllData_auth
  \/ deleteAllData_list
  \/ deleteAllData_recordDelete
  \/ deleteAllData_documentDelete
  \/ deleteAllData_profileDelete

Spec == Init /\ [][Next]_vars

\* the upload page on its own, every awaited file read and call answering
\* in the end (with a result or with an error)
NextUpload ==
  \/ onDrop
  \/ removeFile
  \/ processAllFiles
  \/ processFile_read
  \/ processFile_auth
  \/ processFile_documentCreate
  \/ processFile_recordCreate
  \/ processFile_documentUpdate

SpecUpload ==
  /\ Init
  /\ [][NextUpload]_vars
  /\ WF_vars(processFile_read)
  /\ WF_vars(processFile_auth)
  /\ WF_vars(processFile_documentCreate)
  /\ WF_vars(processFile_recordCreate)
  /\ WF_vars(processFile_documentUpdate)

\* the classifier applied to every input pair of ClassifierInputs
InitClassify == InitProgram /\ readersIdle({"cls"}) /\ cls \in ClassifierInputs

NextClassify == classify

SpecClassify == InitClassify /\ [][NextClassify]_vars

\* the row mapping applied to every row of NormalizerRows
InitNormalize ==
  InitProgram /\ readersIdle({"nrm"}) /\ nrm \in { [row |-> r] : r \in NormalizerRows }

NextNormalize == normalize \/ persist

SpecNormalize == InitNormalize /\ [][NextNormalize]_vars

\* the risk level and the score computed for every input of ScoreInputs
InitScore == InitProgram /\ readersIdle({"scr"}) /\ scr \in ScoreInputs

NextScore == score

SpecScore == InitScore /\ [][NextScore]_vars

\* the CBAM analysis page loading from every store of the uploads drawn
InitAnalysis ==
  /\ InitPages /\ readersIdle({})
  /\ \E rows \in SeqsUpTo(AnalysisRows, MaxRows) :
       /\ tradeDocuments = uploaded(rows).tradeDocuments
       /\ tradeRecords = uploaded(rows).tradeRecords

NextAnalysis == loadCBAMData \/ loadCBAMData_auth \/ loadCBAMData_list

SpecAnalysis == InitAnalysis /\ [][NextAnalysis]_vars

\* the trade flow page loading from every store of the uploads drawn
InitFlow ==
  /\ InitPages /\ readersIdle({})
  /\ \E rows \in SeqsUpTo(FlowRows, MaxRows) :
       /\ tradeDocuments = uploaded(rows).tradeDocuments
       /\ tradeRecords = uploaded(rows).tradeRecords

NextFlow == loadTradeFlowData \/ loadTradeFlowData_auth \/ loadTradeFlowData_list

SpecFlow == InitFlow /\ [][NextFlow]_vars

\* the rows of the sheets whose upload the four views read
ViewRows ==
  { productCodeColumns[3] :> Str(<<"7","3","0","1">>) @@
      originCountryColumns[2] :> Str(<<"C","h","i","n","a">>) @@
      valueColumns[1] :> Num(1000),
    productCodeColumns[3] :> Str(<<"3","1","0","2">>) @@ valueColumns[1] :> Num(0),
    productCodeColumns[3] :> Str(<<"4","4","0","3">>) @@
      originCountryColumns[2] :> Str(<<"C","h","i","n","a">>) @@
      valueColumns[1] :> Num(2000),
    productCodeColumns[3] :> Str(<<"4","4","0","3">>) @@
      originCountryColumns[2] :> Str(<<"B","r","a","z","i","l">>) @@
      valueColumns[1] :> Num(0) }

\* the Dashboard, the CBAM analysis page, the trade flow page and the export
\* of the settings page, over every store of the uploads drawn; the store
\* calls of the four interleave
InitViews ==
  /\ InitPages /\ readersIdle({})
  /\ \E rows \in SeqsUpTo(ViewRows, MaxRows) :
       /\ tradeDocuments = uploaded(rows).tradeDocuments
       /\ tradeRecords = uploaded(rows).tradeRecords

NextViews ==
  \/ loadDashboardData \/ loadDashboardData_auth
  \/ loadDashboardData_documents \/ loadDashboardData_records
  \/ loadCBAMData \/ loadCBAMData_auth \/ loadCBAMData_list
  \/ loadTradeFlowData \/ loadTradeFlowData_auth \/ loadTradeFlowData_list
  \/ exportData \/ exportData_auth \/ exportData_list

SpecViews == InitViews /\ [][NextViews]_vars

\* the rankings of every array of rollups drawn
InitRank ==
  /\ InitProgram /\ readersIdle({"rnk"})
  /\ rnk \in { [values |-> a] : a \in RankInputs }

NextRank == rank

SpecRank == InitRank /\ [][NextRank]_vars

\* the route rollup of every tradeData drawn
InitRoutes ==
  /\ InitProgram /\ readersIdle({"rts"})
  /\ rts \in { [tradeData |-> t] : t \in SeqsUpTo(RouteRecords, MaxRows) }

NextRoutes == reduceRoutes

SpecRoutes == InitRoutes /\ [][NextRoutes]_vars


(***************************************************************************)
(* Properties.                                                             *)
(***************************************************************************)
\* the persisted tradeRecords carrying the document's id
recordsOf(d) == { r \in tradeRecords : r.documentId = d.id }

\* the persisted tradeDocuments created from the file of an upload-list entry
documentsOf(f) == { d \in tradeDocuments : d.filename = f.file.name }

listed == { uploadedFiles[i] : i \in 1..Len(uploadedFiles) }

\* C1: in every reachable state, each persisted tradeDocument whose status
\* is 'completed' has exactly totalRecords persisted tradeRecords carrying
\* its documentId.
C1_CompletedCountMatches ==
  \A d \in tradeDocuments :
    d.status = "completed" => Cardinality(recordsOf(d)) = d.totalRecords

\* C3: when a store call fails in processFile after the document row was
\* created, the persisted tradeDocument of that file ends with status
\* 'error' (and is never left 'completed'): once the file's run has ended
\* in the catch block, every persisted document of the file has status 'error'.
C3_FailedDocumentMarkedError ==
  \A f \in listed :
    f.status = "error" => \A d \in documentsOf(f) : d.status = "error"

\* C4: at every observable state every persisted tradeRecord's documentId
\* names a tradeDocument that is currently persisted (no orphan record).
C4_NoOrphanRecord ==
  \A r \in tradeRecords : \E d \in tradeDocuments : d.id = r.documentId

\* C5: at all times each persisted tradeDocument's totalRecords equals the
\* number of persisted tradeRecords with its documentId, and its
\* cbamaRecords the number of those with isCbamRelevant = "1".
C5_CountsMatchAtAllTimes ==
  \A d \in tradeDocuments :
    /\ d.totalRecords = Cardinality(recordsOf(d))
    /\ d.cbamaRecords = Cardinality({ r \in recordsOf(d) : r.isCbamRelevant = "1" })


\* the log entry of a tradeDocuments.create that succeeded
createdOk == [op |-> "tradeDocuments.create", ok |-> TRUE]

\* how many tradeRecords.create calls of the run have succeeded
recordsCreatedOk ==
  Cardinality({ i \in 1..Len(calls) :
                  calls[i] = [op |-> "tradeRecords.create", ok |-> TRUE] })

\* C2: within one processFile run tradeDocuments.create has completed
\* before any tradeRecords.create is issued, tradeDocuments.update is
\* issued only after every tradeRecords.create of the run has returned
\* successfully, and after a failed call no update is issued.
C2_WriteOrder ==
  /\ \A i \in 1..Len(calls) :
       /\ calls[i].op = "tradeRecords.create" => \E j \in 1..(i - 1) : calls[j] = createdOk
       /\ calls[i].op = "tradeDocuments.update" => \A j \in 1..(i - 1) : calls[j].ok
  /\ pf.pc = "recordCreate" =>
       /\ \E j \in 1..Len(calls) : calls[j] = createdOk
       /\ \A j \in 1..Len(calls) : calls[j].ok
       /\ recordsCreatedOk = pf.i - 1
  /\ pf.pc = "documentUpdate" =>
       /\ \E j \in 1..Len(calls) : calls[j] = createdOk
       /\ \A j \in 1..Len(calls) : calls[j].ok
       /\ recordsCreatedOk = Len(pf.records)

\* C2 witness: a run that created its document, then two records, then
\* had its update to 'completed' answered
C2_Witness ==
  /\ Len(calls) = 4
  /\ calls[4] = [op |-> "tradeDocuments.update", ok |-> TRUE]
  /\ recordsCreatedOk = 2

\* every record the run listed is gone from the store
listedRecordsDeleted ==
  \A k \in 1..Len(del.records) : \A r \in tradeRecords : r.id # del.records[k]

\* C6: in deleteAllData no tradeDocuments.delete is issued until the delete
\* of every listed tradeRecord has succeeded, and a failed record delete
\* ends the run with no document deleted.
C6_ChildrenBeforeParent ==
  [][ /\ del'.pc = "documentDelete" => listedRecordsDeleted'
      /\ (\E d \in tradeDocuments : \A e \in tradeDocuments' : e.id # d.id) =>
           del.pc = "documentDelete" /\ listedRecordsDeleted
      /\ (del.pc = "recordDelete" /\ del' # del /\ tradeRecords' = tradeRecords) =>
           del' = NoDelete /\ tradeDocuments' = tradeDocuments ]_vars

\* C6 witness: a document delete is awaited after two listed records were deleted
C6_Witness ==
  /\ del.pc = "documentDelete"
  /\ Len(del.records) = 2
  /\ tradeDocuments # {}


\* the step in which await processExcelFile(file) rejects
parseFails == pf.pc = "read" /\ pf' # pf /\ pf'.pc # "auth"

\* C7: in a processAllFiles batch, when the parsing of one file fails
\* (processExcelFile rejects), that file alone gets status 'error' with the
\* error message, nothing is written to the store for it, and the loop goes
\* on with the next file that was pending when the batch started.
C7_ParseErrorIsolated ==
  [][ parseFails =>
        /\ \E i \in 1..Len(uploadedFiles') :
             /\ uploadedFiles'[i].id = pf.fileData.id
             /\ uploadedFiles'[i].status = "error"
             /\ uploadedFiles'[i].error \in {"Failed to read file", "File is not a spreadsheet"}
        /\ \A i \in 1..Len(uploadedFiles') :
             (uploadedFiles'[i].id # pf.fileData.id /\ uploadedFiles'[i].status = "error")
               => uploadedFiles[i].status = "error"
        /\ calls = <<>> /\ tradeDocuments' = tradeDocuments /\ tradeRecords' = tradeRecords
        /\ IF batch.idx < Len(batch.pendingFiles)
           THEN pf' = [pc |-> "read", fileData |-> batch.pendingFiles[batch.idx + 1]]
           ELSE pf' = NoRun /\ ~isProcessing' ]_vars

\* C8: a failure while a later file of a batch is processed (any step of
\* processFile, its catch block included) leaves unchanged the upload-list
\* entry, still 'completed', and the persisted tradeDocuments and
\* tradeRecords of every file that has completed.
C8_CompletedFilesKept ==
  [][ pf' # pf =>
        \A i \in 1..Len(uploadedFiles) :
          uploadedFiles[i].status = "completed" =>
            /\ i <= Len(uploadedFiles')
            /\ uploadedFiles'[i] = uploadedFiles[i]
            /\ \A d \in documentsOf(uploadedFiles[i]) :
                 /\ d \in tradeDocuments'
                 /\ \A r \in recordsOf(d) : r \in tradeRecords' ]_vars

\* C8 witness: the second file of the list ended in 'error' after a failed
\* store call, the first is 'completed' and its document and its two
\* records are persisted
C8_Witness ==
  /\ Len(uploadedFiles) = 2
  /\ uploadedFiles[1].status = "completed"
  /\ uploadedFiles[2].status = "error"
  /\ uploadedFiles[2].error = "Request failed"
  /\ \E d \in documentsOf(uploadedFiles[1]) :
       d.status = "completed" /\ Cardinality(recordsOf(d)) = 2

\* the status changes of an UploadedFile
lifecycle ==
  { <<"pending", "processing">>, <<"processing", "completed">>, <<"processing", "error">> }

\* C9: the status of a listed file only moves pending -> processing and
\* processing -> completed or error ('completed' and 'error' are final),
\* processFile starts at most once on a file, and no two persisted
\* documents come from the same file.
C9_Lifecycle ==
  [][ /\ \A i \in 1..Len(uploadedFiles) : \A j \in 1..Len(uploadedFiles') :
           uploadedFiles'[j].id = uploadedFiles[i].id =>
             \/ uploadedFiles'[j].status = uploadedFiles[i].status
             \/ <<uploadedFiles[i].status, uploadedFiles'[j].status>> \in lifecycle
      /\ \A id \in DOMAIN runs' : runs'[id] <= 1
      /\ \A d \in tradeDocuments' : \A e \in tradeDocuments' :
           d.filename = e.filename => d.id = e.id ]_vars

\* C9 witness: a second processAllFiles run is under way on a file dropped
\* later, while the file of an earlier run stays 'completed'
C9_Witness ==
  /\ isProcessing
  /\ Len(uploadedFiles) = 2
  /\ uploadedFiles[1].status = "completed"
  /\ uploadedFiles[2].status = "processing"
  /\ Len(batch.pendingFiles) = 1

\* the table entries one of whose keywords occurs in the lower-cased
\* product code or in the lower-cased description
matching(productCode, description) ==
  { c \in 1..Len(cbamaCategories) :
      \E k \in 1..Len(cbamaCategories[c].keywords) :
        \/ includes(toLowerCase(productCode), cbamaCategories[c].keywords[k])
        \/ includes(toLowerCase(description), cbamaCategories[c].keywords[k]) }

\* C10: detectCBAMRelevance lower-cases both fields and returns the first
\* category, in the order cement, steel, aluminum, fertilizers,
\* electricity, one of whose keywords is a substring of either field; a
\* text matching steel and aluminum keywords (and no cement keyword) is
\* 'steel'; no match gives relevant = false and no category.
C10_FirstCategoryWins ==
  "result" \in DOMAIN cls =>
    LET m == matching(cls.productCode, cls.description)
        order == <<"cement", "steel", "aluminum", "fertilizers", "electricity">>
    IN  /\ m = {} => cls.result = [relevant |-> FALSE]
        /\ m # {} =>
             \E c \in m :
               /\ \A x \in m : c <= x
               /\ cls.result = [relevant |-> TRUE, category |-> order[c]]
        /\ ( /\ includes(toLowerCase(cls.description), <<"s","t","e","e","l">>)
             /\ includes(toLowerCase(cls.description),
                         <<"a","l","u","m","i","n","u","m">>)
             /\ 1 \notin m )
           => cls.result = [relevant |-> TRUE, category |-> "steel"]

\* C10 witness: the description "ALUMINUM Steel" with an empty product code
\* has been classified, as steel
C10_Witness ==
  /\ cls.productCode = <<>>
  /\ cls.description = <<"A","L","U","M","I","N","U","M"," ","S","t","e","e","l">>
  /\ "result" \in DOMAIN cls
  /\ cls.result.category = "steel"

\* the row mapping has produced a record for the row
mapped == "result" \in DOMAIN nrm /\ "threw" \notin DOMAIN nrm.result

\* C11: the classifier returns a result for every pair of values the row
\* mapping passes to it, numeric cells and empty values included: no row
\* makes the mapping throw.
C11_ClassifierTotal == "result" \in DOMAIN nrm => "threw" \notin DOMAIN nrm.result

\* C12: a record the row mapping produces has a category (one of the five)
\* exactly when it is CBAM-relevant, and a persisted tradeRecord has
\* isCbamRelevant "1" with one of the five categories or isCbamRelevant "0"
\* with category null.
C12_CategoryIffRelevant ==
  /\ mapped =>
        IF nrm.result.isCbamRelevant
        THEN "cbamaCategory" \in DOMAIN nrm.result /\ nrm.result.cbamaCategory \in categories
        ELSE "cbamaCategory" \notin DOMAIN nrm.result
  /\ \A r \in tradeRecords :
        \/ r.isCbamRelevant = "1" /\ r.cbamaCategory \in categories
        \/ r.isCbamRelevant = "0" /\ r.cbamaCategory = "null"

\* C12 witness: the record of a row with product code 4403, not relevant,
\* was persisted with isCbamRelevant "0" and category null
C12_Witness ==
  /\ mapped
  /\ ~nrm.result.isCbamRelevant
  /\ nrm.result.productCode = Str(<<"4","4","0","3">>)
  /\ \E r \in tradeRecords : r.isCbamRelevant = "0" /\ r.cbamaCategory = "null"

\* C17: a quantity or value cell that cannot be parsed as a number gives the
\* number 0 for the field, never NaN: no record produced carries a NaN.
C17_UnparsableIsZero ==
  mapped => ~nrm.result.quantity.nan /\ ~nrm.result.value.nan

\* the cell the claimed resolution takes for a field: the row's cell under
\* the first column name of the list that the row has in any letter case
resolved(row, columns, default) ==
  LET has(i) == { k \in DOMAIN row : toLowerCase(k) = toLowerCase(columns[i]) }
      hits == { i \in 1..Len(columns) : has(i) # {} }
  IN  IF hits = {} THEN default
      ELSE row[CHOOSE k \in has(CHOOSE i \in hits : \A j \in hits : i <= j) : TRUE]

\* C18: each field of a record is the cell under the first column name of
\* its list that the row has, column names compared without regard to
\* letter case, also when that cell is empty or zero and a later column
\* name of the list has a non-empty cell.
C18_FirstAliasWins ==
  mapped =>
    /\ nrm.result.productCode = resolved(nrm.row, productCodeColumns, Str(<<>>))
    /\ nrm.result.productDescription =
          resolved(nrm.row, productDescriptionColumns, Str(<<>>))
    /\ nrm.result.originCountry = resolved(nrm.row, originCountryColumns, Str(<<>>))
    /\ nrm.result.quantity = parseFloat(resolved(nrm.row, quantityColumns, Num(0)))
    /\ nrm.result.unit = resolved(nrm.row, unitColumns, Str(<<"K","G">>))
    /\ nrm.result.value = parseFloat(resolved(nrm.row, valueColumns, Num(0)))
    /\ nrm.result.currency = resolved(nrm.row, currencyColumns, Str(<<"U","S","D">>))

\* the row has no cell under any column name of the list, in any letter case
absent(row, columns) ==
  \A i \in 1..Len(columns) : \A k \in DOMAIN row :
     toLowerCase(k) # toLowerCase(columns[i])

\* C19: a row that has none of the column names of a field still gives a
\* record, with the field at its default: '' for productCode,
\* productDescription and originCountry, 0 for quantity and value, 'KG'
\* for unit, 'USD' for currency.
C19_AbsentFieldDefaulted ==
  "result" \in DOMAIN nrm =>
    /\ absent(nrm.row, productCodeColumns) =>
          mapped /\ nrm.result.productCode = Str(<<>>)
    /\ absent(nrm.row, productDescriptionColumns) =>
          mapped /\ nrm.result.productDescription = Str(<<>>)
    /\ absent(nrm.row, originCountryColumns) =>
          mapped /\ nrm.result.originCountry = Str(<<>>)
    /\ absent(nrm.row, quantityColumns) =>
          mapped /\ nrm.result.quantity = Num(0)
    /\ absent(nrm.row, unitColumns) =>
          mapped /\ nrm.result.unit = Str(<<"K","G">>)
    /\ absent(nrm.row, valueColumns) =>
          mapped /\ nrm.result.value = Num(0)
    /\ absent(nrm.row, currencyColumns) =>
          mapped /\ nrm.result.currency = Str(<<"U","S","D">>)

\* C13: calculateRiskLevel gives 'high' exactly for a high-risk country with
\* a category among steel, cement, aluminum; otherwise 'medium' exactly
\* for a high-risk country, such a category, or a medium-risk country;
\* otherwise 'low' -- the category 'unknown' included.
C13_RiskLevel ==
  "riskLevel" \in DOMAIN scr =>
    LET highCountry == \E i \in 1..Len(highRiskCountries) :
                          scr.country = Str(highRiskCountries[i])
        mediumCountry == \E i \in 1..Len(mediumRiskCountries) :
                            scr.country = Str(mediumRiskCountries[i])
        highCategory == scr.category \in {"steel", "cement", "aluminum"}
    IN  /\ scr.riskLevel \in {"high", "medium", "low"}
        /\ scr.riskLevel = "high" <=> (highCountry /\ highCategory)
        /\ scr.riskLevel = "medium" <=>
              (~(highCountry /\ highCategory)
               /\ (highCountry \/ highCategory \/ mediumCountry))
        /\ scr.riskLevel = "low" <=> ~(highCountry \/ highCategory \/ mediumCountry)

\* C13 witness: India with the category 'unknown' came out 'medium'
C13_Witness ==
  /\ scr.country = Str(<<"I","n","d","i","a">>)
  /\ scr.category = "unknown"
  /\ "riskLevel" \in DOMAIN scr
  /\ scr.riskLevel = "medium"

\* C14: the score is base - min(value / 100000, 15) clamped to [0,100],
\* base 40 / 70 / 85 for high / medium / low; at a fixed risk level a
\* larger value never gives a larger score; for value >= 0 the score is at
\* most 15 points under the base and never over it.  Scores in 1/Scale.
C14_ScoreFormula ==
  "complianceScore" \in DOMAIN scr =>
    LET base == CASE scr.riskLevel = "high" -> 40 * Scale
                  [] scr.riskLevel = "medium" -> 70 * Scale
                  [] scr.riskLevel = "low" -> 85 * Scale
        penalty == IF scr.value.v <= 15 * Scale THEN scr.value.v ELSE 15 * Scale
        raw == base - penalty
    IN  /\ scr.complianceScore =
              (IF raw < 0 THEN 0 ELSE IF raw > 100 * Scale THEN 100 * Scale ELSE raw)
        /\ \A w \in TradeValues :
              w >= scr.value.v =>
                calculateComplianceScore(scr.riskLevel, w) <= scr.complianceScore
        /\ scr.value.v >= 0 =>
              /\ base - scr.complianceScore <= 15 * Scale
              /\ base - scr.complianceScore >= 0

\* C14 witness: a value of 20,000,000 at risk level 'high' scored 25 points
C14_Witness ==
  /\ scr.value = Num(20000000)
  /\ "complianceScore" \in DOMAIN scr
  /\ scr.riskLevel = "high"
  /\ scr.complianceScore = 25 * Scale

\* C15: the complianceScore of every scored record lies in [0,100] and so
\* does the averageComplianceScore of the statistics, for zero, negative
\* and very large trade values alike.
C15_ScoreBounds ==
  cbam.pc = "done" =>
    /\ \A i \in 1..Len(cbam.cbamaRecords) :
          /\ cbam.cbamaRecords[i].complianceScore >= 0
          /\ cbam.cbamaRecords[i].complianceScore <= 100 * Scale
    /\ cbam.stats.averageComplianceScore.num >= 0
    /\ cbam.stats.averageComplianceScore.num <=
          100 * Scale * cbam.stats.averageComplianceScore.den

\* C15 witness: two records were scored, one of a negative value at the
\* upper bound 100, and the average is over both
C15_Witness ==
  /\ cbam.pc = "done"
  /\ Len(cbam.cbamaRecords) = 2
  /\ \E i \in 1..2 :
        /\ cbam.cbamaRecords[i].value = Num(0 - 2000000)
        /\ cbam.cbamaRecords[i].complianceScore = 100 * Scale
  /\ cbam.stats.averageComplianceScore.den = 2

\* C16: loadCBAMData scores exactly the persisted records whose
\* isCbamRelevant is "1": every scored record is one of them, each of them
\* is scored once, and the statistics count them and no other record.
C16_OnlyRelevantScored ==
  /\ cbam.pc = "done" =>
        LET relevant == { r \in tradeRecords : r.isCbamRelevant = "1" }
        IN  /\ { cbam.cbamaRecords[i].id : i \in 1..Len(cbam.cbamaRecords) } =
                  { r.id : r \in relevant }
            /\ Len(cbam.cbamaRecords) = Cardinality(relevant)
            /\ cbam.stats.totalRecords = Cardinality(relevant)
  /\ cbam.pc # "none" =>
        \A i \in 1..Len(cbam.cbamaRecords) :
          \E r \in tradeRecords :
            r.id = cbam.cbamaRecords[i].id /\ r.isCbamRelevant = "1"

\* C16 witness: the store holds a relevant and a non-relevant record and
\* the page has scored one record
C16_Witness ==
  /\ cbam.pc = "done"
  /\ Len(cbam.cbamaRecords) = 1
  /\ \E r \in tradeRecords : r.isCbamRelevant = "0"
  /\ \E r \in tradeRecords : r.isCbamRelevant = "1"

\* the indices of the records, as the run listed them, that count for country c
indicesOf(c) ==
  { i \in 1..Len(flow.records) :
      IF flow.records[i].originCountry = Str(<<>>) THEN c = Unknown
      ELSE flow.records[i].originCountry = c }

\* the indices of indicesOf(c) at which a non-empty product description
\* occurs for the first time among the records of c
firstIndices(c) ==
  { i \in indicesOf(c) :
      /\ flow.records[i].productDescription # Str(<<>>)
      /\ \A j \in indicesOf(c) :
            j < i => flow.records[j].productDescription # flow.records[i].productDescription }

\* C20: the rollup of country c (an empty origin counted under 'Unknown')
\* has totalRecords = the number of records of c, totalValue = the sum of
\* their values, cbamaRecords = the number of them that are CBAM-relevant,
\* topProducts = their distinct non-empty product descriptions in
\* first-occurrence order; each country of a record has one rollup.
C20_CountryRollup ==
  flow.pc = "done" =>
    LET top == flow.tradeData.topCountries
        named == { IF flow.records[i].originCountry = Str(<<>>) THEN Unknown
                   ELSE flow.records[i].originCountry : i \in 1..Len(flow.records) }
    IN  /\ \A k \in 1..Len(top) : top[k].country \in named
        /\ \A c \in named :
              /\ Cardinality({ k \in 1..Len(top) : top[k].country = c }) = 1
              /\ \A k \in 1..Len(top) :
                    top[k].country = c =>
                      /\ top[k].totalRecords = Cardinality(indicesOf(c))
                      /\ top[k].totalValue =
                            sumFrom([i \in 1..Len(flow.records) |->
                                       IF i \in indicesOf(c)
                                       THEN flow.records[i].value.v ELSE 0], 1)
                      /\ top[k].cbamaRecords =
                            Cardinality({ i \in indicesOf(c) :
                                            flow.records[i].isCbamRelevant = "1" })
                      /\ Len(top[k].topProducts) = Cardinality(firstIndices(c))
                      /\ \A n \in 1..Len(top[k].topProducts) :
                            \E i \in firstIndices(c) :
                              /\ Cardinality({ j \in firstIndices(c) : j <= i }) = n
                              /\ top[k].topProducts[n] = flow.records[i].productDescription

\* C20 witness: two France records of value 1000 and 2000 with different
\* products gave the rollup count 2, total 3000, two products
C20_Witness ==
  /\ flow.pc = "done"
  /\ Len(flow.records) = 2
  /\ \E k \in 1..Len(flow.tradeData.topCountries) :
        /\ flow.tradeData.topCountries[k].country = Str(<<"F","r","a","n","c","e">>)
        /\ flow.tradeData.topCountries[k].totalRecords = 2
        /\ flow.tradeData.topCountries[k].totalValue = 3000
        /\ flow.tradeData.topCountries[k].cbamaRecords = 1
        /\ Len(flow.tradeData.topCountries[k].topProducts) = 2

\* C26: a file removed from the upload list before its processFile starts
\* is never persisted: whenever a tradeDocument or a tradeRecord is created,
\* the file it is created for is in the upload list.
C26_RemovedFileNotPersisted ==
  [][ (tradeDocuments' # tradeDocuments \/ tradeRecords' # tradeRecords)
      /\ pf.pc \in {"documentCreate", "recordCreate"} /\ pf' # pf
      => \E i \in 1..Len(uploadedFiles) : uploadedFiles[i].id = pf.fileData.id ]_vars

\* the upload-list entries with status 'processing'
processing == { i \in 1..Len(uploadedFiles) : uploadedFiles[i].status = "processing" }

\* C27: at most one file has status 'processing'; a processFile run is
\* under way only inside a processAllFiles run, with isProcessing true;
\* and a processAllFiles run starts only while isProcessing is false and
\* no file is being processed.
C27_OneAtATime ==
  [][ /\ Cardinality(processing) <= 1
      /\ pf.pc # "none" => isProcessing /\ batch # NoBatch
      /\ (batch'.idx = 1 /\ batch # batch') =>
            ~isProcessing /\ pf.pc = "none" /\ processing = {} ]_vars

\* C27 witness: in one batch the first file is completed and the second is
\* the only one processing
C27_Witness ==
  /\ isProcessing
  /\ batch.idx = 2
  /\ Len(uploadedFiles) = 2
  /\ uploadedFiles[1].status = "completed"
  /\ uploadedFiles[2].status = "processing"
  /\ pf.pc = "recordCreate"

\* C28: with every awaited file read and store call answering in the end, a
\* processAllFiles run ends with isProcessing false, and when it ends every
\* file that was pending at its start and is still listed is 'completed'
\* or 'error'.
C28_BatchTerminates ==
  /\ isProcessing ~> ~isProcessing
  /\ [][ (isProcessing /\ ~isProcessing') =>
           \A k \in 1..Len(batch.pendingFiles) :
             \A i \in 1..Len(uploadedFiles') :
               uploadedFiles'[i].id = batch.pendingFiles[k].id =>
                 uploadedFiles'[i].status \in {"completed", "error"} ]_vars

\* C28 witness: a batch of two files has ended, one file completed and the
\* other in error
C28_Witness ==
  /\ ~isProcessing
  /\ batch = NoBatch
  /\ Len(uploadedFiles) = 2
  /\ uploadedFiles[1].status = "completed"
  /\ uploadedFiles[2].status = "error"
  /\ runs[1] = 1 /\ runs[2] = 1

(***************************************************************************)
(* C21: every percent of a total is 0 when its denominator is 0.  On the   *)
(* trade flow page: when the loaded records sum to a total value of 0,     *)
(* every Trade Volume percent shown is the number 0.                       *)
(***************************************************************************)
C21_ZeroDenominatorIsZero ==
  (flow.pc = "done" /\ flow.tradeData.totalValue = 0) =>
     \A k \in 1..Len(tradeVolumePercents) : tradeVolumePercents[k] = Num(0)

(***************************************************************************)
(* C22: aggregating an empty record set gives zeroed totals, not an error: *)
(* a view that has loaded from no record (for the CBAM analysis: from no   *)
(* CBAM-relevant record) shows 0 records, 0 CBAM and high-risk records, an *)
(* average score of 0 over a non-zero divisor, a total value of 0, and     *)
(* empty category, country and route rollups.                              *)
(***************************************************************************)
C22_EmptyIsZeroed ==
  /\ (cbam.pc = "done" /\ { r \in tradeRecords : whereCbamRelevant(r) } = {}) =>
       /\ cbam.cbamaRecords = <<>>
       /\ cbam.stats.totalRecords = 0
       /\ cbam.stats.highRiskRecords = 0
       /\ cbam.stats.averageComplianceScore.num = 0
       /\ cbam.stats.averageComplianceScore.den # 0
       /\ DOMAIN cbam.stats.categoriesBreakdown = {}
       /\ DOMAIN cbam.stats.countryRisks = {}
       /\ highRiskPercent(cbam.stats) = Num(0)
  /\ (flow.pc = "done" /\ tradeRecords = {}) =>
       /\ flow.tradeData.totalCountries = 0
       /\ flow.tradeData.totalValue = 0
       /\ flow.tradeData.topCountries = <<>>
       /\ flow.tradeData.tradeRoutes = <<>>
  /\ (dash.pc = "done" /\ tradeRecords = {}) =>
       /\ dash.stats.totalRecords = 0
       /\ dash.stats.cbamaRecords = 0
       /\ dash.stats.uniqueCountries = 0
       /\ cbamPercent(dash.stats) = Num(0)
  /\ (exp.pc = "done" /\ tradeRecords = {}) =>
       /\ exp.summary.totalRecords = 0
       /\ exp.summary.cbamaRecords = 0

\* every view has loaded from the empty store
C22_Witness ==
  /\ tradeRecords = {}
  /\ cbam.pc = "done" /\ flow.pc = "done" /\ dash.pc = "done" /\ exp.pc = "done"

(***************************************************************************)
(* C23: a ranking lists the rollups by descending total value, rollups of  *)
(* equal total value in the order of their insertion, and is the first 10  *)
(* of that order: the element at place k of the list has exactly k - 1     *)
(* rollups before it in that order.                                        *)
(***************************************************************************)
C23_Ranking ==
  "topCountries" \in DOMAIN rnk =>
     \A list \in { rnk.topCountries, rnk.topRoutes } :
        /\ Len(list) = min(10, Len(rnk.values))
        /\ \A k \in 1..Len(list) :
             /\ list[k].key \in 1..Len(rnk.values)
             /\ list[k] = rnk.values[list[k].key]
             /\ Cardinality({ j \in 1..Len(rnk.values) :
                    \/ rnk.values[j].totalValue > list[k].totalValue
                    \/ /\ rnk.values[j].totalValue = list[k].totalValue
                       /\ j < list[k].key }) = k - 1

\* more than 10 rollups with ties were ranked: the last one inserted is
\* listed and one of the two inserted first is cut
C23_Witness ==
  /\ "topCountries" \in DOMAIN rnk
  /\ Len(rnk.values) > 10
  /\ rnk.values[1].totalValue = 1000 /\ rnk.values[2].totalValue = 1000
  /\ rnk.values[Len(rnk.values)].totalValue = 2000
  /\ \E k \in 1..Len(rnk.topRoutes) : rnk.topRoutes[k].key = Len(rnk.values)
  /\ \A k \in 1..Len(rnk.topCountries) : rnk.topCountries[k].key # 2

(***************************************************************************)
(* C24: the route rollups are the (origin, destination) pairs of the       *)
(* records: one rollup for each pair, whose count and totalValue are the   *)
(* number and the value sum of the records of that pair.                   *)
(***************************************************************************)
C24_RollupPerPair ==
  "countryPairs" \in DOMAIN rts =>
     LET n == Len(rts.tradeData)
         pairOf(i) == << rts.tradeData[i].countryOrigin,
                         rts.tradeData[i].countryDestination >>
         pairs == { pairOf(i) : i \in 1..n }
     IN  /\ Len(rts.countryPairs) = Cardinality(pairs)
         /\ \A p \in pairs :
              \E k \in 1..Len(rts.countryPairs) :
                 /\ rts.countryPairs[k].origin = p[1]
                 /\ rts.countryPairs[k].destination = p[2]
                 /\ rts.countryPairs[k].count =
                      Cardinality({ i \in 1..n : pairOf(i) = p })
                 /\ rts.countryPairs[k].totalValue =
                      sumFrom([i \in 1..n |->
                                 IF pairOf(i) = p THEN rts.tradeData[i].valueUsd.v
                                 ELSE 0], 1)

(***************************************************************************)
(* C25: aggregation only reads.  No step of a view changes the store; the  *)
(* records a view holds after its rollup are the listed rows as they are   *)
(* in the store; the rollup and the statistics are the function of those   *)
(* records alone; and an export made again over the same store downloads   *)
(* the same summary.                                                       *)
(***************************************************************************)
C25_ReadOnly ==
  [][ /\ tradeDocuments' = tradeDocuments
      /\ tradeRecords' = tradeRecords
      /\ (flow.pc = "list" /\ flow'.pc = "done") =>
            /\ flow'.records \in Orderings(tradeRecords')
            /\ flow'.tradeData = tradeDataOf(flow'.records)
      /\ (cbam.pc = "list" /\ cbam'.pc = "done") =>
            /\ \E records \in Orderings({ r \in tradeRecords' : whereCbamRelevant(r) }) :
                 cbam'.cbamaRecords =
                   [i \in 1..Len(records) |-> processRecord(records[i])]
            /\ cbam'.stats = statsOf(cbam'.cbamaRecords)
      /\ (exp.pc = "list" /\ exp'.pc = "done" /\ "summary" \in DOMAIN exp) =>
            exp'.summary = exp.summary ]_vars

\* the pages have loaded from a store of two records, one export was
\* downloaded and a second one is under way
C25_Witness ==
  /\ Cardinality(tradeRecords) = 2
  /\ flow.pc = "done" /\ cbam.pc = "done" /\ dash.pc = "done"
  /\ Len(cbam.cbamaRecords) > 0
  /\ exp.pc = "list" /\ "summary" \in DOMAIN exp

(***************************************************************************)
(* C29: the CBAM flag round-trips through the store.  Every stored record  *)
(* holds "1" if the classifier finds its code and description relevant and *)
(* "0" if not, and every reader counts exactly the relevant records: the   *)
(* Dashboard, the export summary and the country rollups by                *)
(* Number(x) > 0, the CBAM analysis by its list filter.                    *)
(***************************************************************************)
classifiedRelevant ==
  { r \in tradeRecords :
      detectCBAMRelevance(r.productCode.v, r.productDescription.v).relevant }

C29_FlagRoundTrip ==
  LET relevant == classifiedRelevant
  IN  /\ \A r \in tradeRecords :
           r.isCbamRelevant = IF r \in relevant THEN "1" ELSE "0"
      /\ dash.pc = "done" => dash.stats.cbamaRecords = Cardinality(relevant)
      /\ "summary" \in DOMAIN exp => exp.summary.cbamaRecords = Cardinality(relevant)
      /\ flow.pc = "done" =>
           sumFrom([k \in 1..Len(flow.tradeData.topCountries) |->
                      flow.tradeData.topCountries[k].cbamaRecords], 1)
             = Cardinality(relevant)
      /\ cbam.pc = "done" =>
           /\ Len(cbam.cbamaRecords) = Cardinality(relevant)
           /\ { cbam.cbamaRecords[i].id : i \in 1..Len(cbam.cbamaRecords) }
                = { r.id : r \in relevant }

\* every reader has counted a store that holds a relevant record and one
\* that is not relevant
C29_Witness ==
  /\ Cardinality(classifiedRelevant) = 1
  /\ Cardinality(tradeRecords) = 2
  /\ dash.pc = "done" /\ flow.pc = "done" /\ cbam.pc = "done" /\ exp.pc = "done"

(***************************************************************************)
(* C30: the rollups conserve their input.  Over the country rollup before  *)
(* the cut, the totalRecords sum to the number of records, the totalValue  *)
(* sum to the overall totalValue, the cbamaRecords sum to the number of    *)
(* records flagged "1", and totalCountries is the number of distinct       *)
(* country keys; the counts of the category breakdown sum to the number of *)
(* records scored.                                                         *)
(***************************************************************************)
\* the sum of the values of a function
RECURSIVE sumOver(_)
sumOver(f) ==
  IF DOMAIN f = {} THEN 0
  ELSE LET c == CHOOSE c \in DOMAIN f : TRUE
       IN  f[c] + sumOver([d \in DOMAIN f \ {c} |-> f[d]])

C30_RollupConserves ==
  /\ flow.pc = "done" =>
       LET records == flow.records
           countryMap == forEachRecord(records, 1, <<>>)
           flagged(r) == r.isCbamRelevant = "1"
       IN  /\ sumOver([k \in 1..Len(countryMap) |-> countryMap[k].totalRecords])
                = Len(records)
           /\ sumOver([k \in 1..Len(countryMap) |-> countryMap[k].totalValue])
                = flow.tradeData.totalValue
           /\ sumOver([k \in 1..Len(countryMap) |-> countryMap[k].cbamaRecords])
                = Len(SelectSeq(records, flagged))
           /\ flow.tradeData.totalCountries
                = Cardinality({ countryOf(records[i]) : i \in 1..Len(records) })
           /\ Len(countryMap) <= 10 =>
                { flow.tradeData.topCountries[k] :
                    k \in 1..Len(flow.tradeData.topCountries) }
                  = { countryMap[k] : k \in 1..Len(countryMap) }
  /\ cbam.pc = "done" =>
       /\ sumOver(cbam.stats.categoriesBreakdown) = Len(cbam.cbamaRecords)
       /\ cbam.stats.totalRecords = Len(cbam.cbamaRecords)

\* both pages have loaded from two records of one country: the rollup
\* holds both, the CBAM analysis has scored the relevant one
C30_Witness ==
  /\ flow.pc = "done" /\ cbam.pc = "done"
  /\ Len(cbam.cbamaRecords) = 1
  /\ Len(flow.records) = 2
  /\ flow.tradeData.totalCountries = 1
  /\ flow.tradeData.topCountries[1].cbamaRecords = 1
  /\ flow.tradeData.totalValue = 3000

=============================================================================
